---------------------------- MODULE Spec2Model ----------------------------
(***************************************************************************)
(* A model of java_class_parser: the JNI signature grammar, the            *)
(* LineNumberTable lookup, the constant pool, the classpath resolver, the  *)
(* caching class parser and the inheritance graph builder.                 *)
(*                                                                         *)
(* Each component has its own specification (SpecSig, SpecLnt, ...); the   *)
(* variables of the other components stay at their idle values there.      *)
(***************************************************************************)
EXTENDS Integers, Sequences, FiniteSets, TLC

VARIABLES
    \* Signature: the descriptor, Signature::new's result, jni()'s text
    sigPc, sigIn, sigRes, sigOut,
    \* LineNumberTable: the table, the queried pc, pc_to_line's result
    lnPc, lnTable, lnQuery, lnOut,
    \* Constant pool: the build profile, the buffer, the entries and count it
    \* was written from, the decoded pool, the queried index, get's result
    poolPc, poolBuild, poolBytes, poolEntries, poolCount, pool, poolIdx,
    poolOut,
    \* Classpath: the entries in declared order, the last query and its
    \* result, the entries that query examined, how often each archive file
    \* has been opened, the number of lookups made
    cpPaths, cpQuery, cpOut, cpConsulted, cpOpens, cpLookups,
    \* JavaClassParser: the classpath as declared, the iteration order of the
    \* class_path set, the cache, the open archives, the name and result of
    \* the last find, the first class found per name, the number of finds,
    \* and the searches, file reads and archive opens made so far
    psDeclared, psOrder, psCache, psZips, psName, psOut, psFirst, psFinds,
    psIo,
    \* Inheritance: the classpath directory, the parser over it, the stage
    \* reached, the class inspected, the result of inspect, the name asked
    \* of inherits and its result
    grDisk, grParser, grPc, grRoot, grBuilt, grQuery, grOut,
    \* inspect, statement by statement: the classpath directory, the parser,
    \* the statement reached, the name of the class inspected, the graph and
    \* the stack of inspect, the class being expanded, its parents still to
    \* add, and the result of inspect or of inherits
    inDisk, inParser, inPc, inRoot, inGraph, inStack, inClass, inTodo,
    inOut,
    \* Lookups of relatives: the parser, the class whose relatives are looked
    \* up, whether the call was made, which call, the name asked of find, and
    \* the result
    rlParser, rlClass, rlPc, rlOp, rlName, rlOut,
    \* Attributes: the build profile, the constant pool of the class, the
    \* name and the payload of the attribute, whether Attribute::new was
    \* called, and its result
    atBuild, atPool, atName, atBytes, atPc, atOut,
    \* Class files: the build profile, the structure the buffer was written
    \* from, the buffer, the part of it parse_class_file_bytes has not read
    \* yet, the fields decoded so far, and the position in
    \* parse_class_file_bytes
    cfBuild, cfClass, cfBytes, cfRest, cfRaw, cfPc,
    \* Class names: the build profile, the constant pool and the this_class
    \* and super_class indices of a decoded class, which of this() and
    \* super_name() was called, and its result
    nmBuild, nmPool, nmThis, nmSuper, nmPc, nmOut,
    \* Attribute listing: the build profile, the raw class-level attribute
    \* records of a decoded class, whether attributes() was called, and what
    \* it returned
    alBuild, alRaws, alPc, alOut

sigVars == <<sigPc, sigIn, sigRes, sigOut>>

lnVars == <<lnPc, lnTable, lnQuery, lnOut>>

poolVars ==
    <<poolPc, poolBuild, poolBytes, poolEntries, poolCount, pool, poolIdx,
      poolOut>>

cpVars == <<cpPaths, cpQuery, cpOut, cpConsulted, cpOpens, cpLookups>>

psVars ==
    <<psDeclared, psOrder, psCache, psZips, psName, psOut, psFirst, psFinds,
      psIo>>

grVars == <<grDisk, grParser, grPc, grRoot, grBuilt, grQuery, grOut>>

inVars ==
    <<inDisk, inParser, inPc, inRoot, inGraph, inStack, inClass, inTodo,
      inOut>>

rlVars ==
    <<rlParser, rlClass, rlPc, rlOp, rlName, rlOut>>

atVars ==
    <<atBuild, atPool, atName, atBytes, atPc, atOut>>

cfVars ==
    <<cfBuild, cfClass, cfBytes, cfRest, cfRaw, cfPc>>

nmVars ==
    <<nmBuild, nmPool, nmThis, nmSuper, nmPc, nmOut>>

alVars ==
    <<alBuild, alRaws, alPc, alOut>>

vars == <<sigVars, lnVars, poolVars, cpVars, psVars, grVars, inVars, rlVars,
      atVars, cfVars, nmVars, alVars>>

(***************************************************************************)
(* The idle value of each component, held while another one runs.          *)
(***************************************************************************)

SigIdle == sigPc = "idle" /\ sigIn = <<>> /\ sigRes = [ok |-> FALSE] /\ sigOut = <<>>

LnIdle ==
    lnPc = "idle" /\ lnTable = <<>> /\ lnQuery = 0 /\ lnOut = [some |-> FALSE]

PoolIdle ==
    /\ poolPc = "idle"
    /\ poolBuild = "debug"
    /\ poolBytes = <<>>
    /\ poolEntries = <<>>
    /\ poolCount = 1
    /\ pool = <<>>
    /\ poolIdx = 0
    /\ poolOut = [st |-> "none"]

CpIdle ==
    /\ cpPaths = <<>>
    /\ cpQuery = <<>>
    /\ cpOut = [some |-> FALSE]
    /\ cpConsulted = <<>>
    /\ cpOpens = [l \in {} |-> 0]
    /\ cpLookups = 0

\* No call made yet.
NoResult == [ok |-> FALSE, err |-> [kind |-> "none"]]

PsIdle ==
    /\ psDeclared = <<>>
    /\ psOrder = <<>>
    /\ psCache = <<>>
    /\ psZips = {}
    /\ psName = <<>>
    /\ psOut = NoResult
    /\ psFirst = <<>>
    /\ psFinds = 0
    /\ psIo = [searches |-> 0, reads |-> 0, opens |-> 0]

GrIdle ==
    /\ grDisk = <<>>
    /\ grParser = <<>>
    /\ grPc = "idle"
    /\ grRoot = <<>>
    /\ grBuilt = NoResult
    /\ grQuery = <<>>
    /\ grOut = NoResult

InIdle ==
    /\ inDisk = <<>>
    /\ inParser = <<>>
    /\ inPc = "idle"
    /\ inRoot = <<>>
    /\ inGraph = <<>>
    /\ inStack = <<>>
    /\ inClass = <<>>
    /\ inTodo = <<>>
    /\ inOut = NoResult

RlIdle ==
    /\ rlParser = <<>>
    /\ rlClass = <<>>
    /\ rlPc = "idle"
    /\ rlOp = "none"
    /\ rlName = <<>>
    /\ rlOut = NoResult

AtIdle ==
    /\ atBuild = "debug"
    /\ atPool = <<>>
    /\ atName = ""
    /\ atBytes = <<>>
    /\ atPc = "idle"
    /\ atOut = [st |-> "none"]

CfIdle ==
    /\ cfBuild = "debug"
    /\ cfClass = <<>>
    /\ cfBytes = <<>>
    /\ cfRest = <<>>
    /\ cfRaw = <<>>
    /\ cfPc = "idle"

NmIdle ==
    /\ nmBuild = "debug"
    /\ nmPool = <<>>
    /\ nmThis = 0
    /\ nmSuper = 0
    /\ nmPc = "idle"
    /\ nmOut = [st |-> "none"]

AlIdle ==
    /\ alBuild = "debug"
    /\ alRaws = <<>>
    /\ alPc = "idle"
    /\ alOut = [st |-> "none"]

\* The variables a component leaves alone, and the other components idle.
notSig == <<lnVars, poolVars, cpVars, psVars, grVars, inVars, rlVars,
    atVars, cfVars, nmVars, alVars>>

notLn == <<sigVars, poolVars, cpVars, psVars, grVars, inVars, rlVars,
    atVars, cfVars, nmVars, alVars>>

notPool == <<sigVars, lnVars, cpVars, psVars, grVars, inVars, rlVars,
    atVars, cfVars, nmVars, alVars>>

notCp == <<sigVars, lnVars, poolVars, psVars, grVars, inVars, rlVars,
    atVars, cfVars, nmVars, alVars>>

notPs == <<sigVars, lnVars, poolVars, cpVars, grVars, inVars, rlVars,
    atVars, cfVars, nmVars, alVars>>

notGr == <<sigVars, lnVars, poolVars, cpVars, psVars, inVars, rlVars,
    atVars, cfVars, nmVars, alVars>>

notIn == <<sigVars, lnVars, poolVars, cpVars, psVars, grVars, rlVars,
    atVars, cfVars, nmVars, alVars>>

notRl == <<sigVars, lnVars, poolVars, cpVars, psVars, grVars, inVars,
    atVars, cfVars, nmVars, alVars>>

notAt == <<sigVars, lnVars, poolVars, cpVars, psVars, grVars, inVars,
    rlVars, cfVars, nmVars, alVars>>

notCf == <<sigVars, lnVars, poolVars, cpVars, psVars, grVars, inVars,
    rlVars, atVars, nmVars, alVars>>

notNm == <<sigVars, lnVars, poolVars, cpVars, psVars, grVars, inVars,
    rlVars, atVars, cfVars, alVars>>

notAl == <<sigVars, lnVars, poolVars, cpVars, psVars, grVars, inVars,
    rlVars, atVars, cfVars, nmVars>>

OnlySig ==
    LnIdle /\ PoolIdle /\ CpIdle /\ PsIdle
    /\ GrIdle /\ InIdle /\ RlIdle /\ AtIdle /\ CfIdle /\ NmIdle /\ AlIdle

OnlyLn ==
    SigIdle /\ PoolIdle /\ CpIdle /\ PsIdle
    /\ GrIdle /\ InIdle /\ RlIdle /\ AtIdle /\ CfIdle /\ NmIdle /\ AlIdle

OnlyPool ==
    SigIdle /\ LnIdle /\ CpIdle /\ PsIdle
    /\ GrIdle /\ InIdle /\ RlIdle /\ AtIdle /\ CfIdle /\ NmIdle /\ AlIdle

OnlyCp ==
    SigIdle /\ LnIdle /\ PoolIdle /\ PsIdle
    /\ GrIdle /\ InIdle /\ RlIdle /\ AtIdle /\ CfIdle /\ NmIdle /\ AlIdle

OnlyPs ==
    SigIdle /\ LnIdle /\ PoolIdle /\ CpIdle
    /\ GrIdle /\ InIdle /\ RlIdle /\ AtIdle /\ CfIdle /\ NmIdle /\ AlIdle

OnlyGr ==
    SigIdle /\ LnIdle /\ PoolIdle /\ CpIdle
    /\ PsIdle /\ InIdle /\ RlIdle /\ AtIdle /\ CfIdle /\ NmIdle /\ AlIdle

OnlyIn ==
    SigIdle /\ LnIdle /\ PoolIdle /\ CpIdle
    /\ PsIdle /\ GrIdle /\ RlIdle /\ AtIdle /\ CfIdle /\ NmIdle /\ AlIdle

OnlyRl ==
    SigIdle /\ LnIdle /\ PoolIdle /\ CpIdle
    /\ PsIdle /\ GrIdle /\ InIdle /\ AtIdle /\ CfIdle /\ NmIdle /\ AlIdle

OnlyAt ==
    SigIdle /\ LnIdle /\ PoolIdle /\ CpIdle
    /\ PsIdle /\ GrIdle /\ InIdle /\ RlIdle /\ CfIdle /\ NmIdle /\ AlIdle

OnlyCf ==
    SigIdle /\ LnIdle /\ PoolIdle /\ CpIdle
    /\ PsIdle /\ GrIdle /\ InIdle /\ RlIdle /\ AtIdle /\ NmIdle /\ AlIdle

OnlyNm ==
    SigIdle /\ LnIdle /\ PoolIdle /\ CpIdle
    /\ PsIdle /\ GrIdle /\ InIdle /\ RlIdle /\ AtIdle /\ CfIdle /\ AlIdle

OnlyAl ==
    SigIdle /\ LnIdle /\ PoolIdle /\ CpIdle
    /\ PsIdle /\ GrIdle /\ InIdle /\ RlIdle /\ AtIdle /\ CfIdle /\ NmIdle

(***************************************************************************)
(* Generic helpers.                                                        *)
(***************************************************************************)

\* Option<T>: None, or Some(v).
None == [some |-> FALSE]

Some(v) == [some |-> TRUE, val |-> v]

\* All sequences over S of length at most n.
SeqsUpTo(S, n) == UNION {[1..k -> S] : k \in 0..n}

\* s without its first n elements.
Drop(s, n) == SubSeq(s, n + 1, Len(s))

\* The first n elements of s.
Take(s, n) == SubSeq(s, 1, n)

(***************************************************************************)
(* Signature grammar (src/src/structures/signatures.rs).  A string is a    *)
(* sequence of one-character strings.                                      *)
(***************************************************************************)

\* Longest descriptor the exhaustive enumeration covers.
MaxSigLen == 4

\* The characters the enumeration draws from: two primitives, the object
\* marker, a digit (legal inside an identifier, not at its start) and the
\* punctuation of the grammar.
SigAlphabet == {"I", "V", "L", "1", "/", ";", "[", "(", ")"}

\* The descriptor of the crate's own test, "(ZI)Ljava/lang/Object;".
SigExample ==
    <<"(", "Z", "I", ")", "L", "j", "a", "v", "a", "/", "l", "a", "n", "g",
      "/", "O", "b", "j", "e", "c", "t", ";">>

\* nom's is_alphabetic on the characters the model uses.
AlphaChars ==
    {"Z", "B", "C", "S", "I", "J", "F", "D", "V", "L", "O",
     "a", "b", "c", "e", "g", "j", "l", "n", "t", "v"}

DigitChars == {"0", "1"}

\* First character of an identifier: alt((alpha1, tag("$"), tag("_"))).
IdentStart == AlphaChars \cup {"$", "_"}

\* Later characters: many0(alt((alphanumeric1, tag("$"), tag("_")))).
IdentPart == AlphaChars \cup DigitChars \cup {"$", "_"}

\* Length of the longest prefix of s made of characters of set cs.
RECURSIVE PrefixLen(_, _)
PrefixLen(s, cs) ==
    IF s = <<>> \/ Head(s) \notin cs THEN 0 ELSE 1 + PrefixLen(Tail(s), cs)

\* parse_java_identifier: the number of characters it consumes, 0 = error.
ParseJavaIdentifier(s) ==
    IF s = <<>> \/ Head(s) \notin IdentStart
    THEN 0
    ELSE 1 + PrefixLen(Tail(s), IdentPart)

\* The loop of separated_list1 after its first element: "/" and one more
\* identifier, as long as both parse; a "/" no identifier follows is left
\* in the input.
RECURSIVE PathRest(_)
PathRest(s) ==
    IF s # <<>> /\ Head(s) = "/" /\ ParseJavaIdentifier(Tail(s)) > 0
    THEN LET n == 1 + ParseJavaIdentifier(Tail(s))
         IN  n + PathRest(Drop(s, n))
    ELSE 0

\* parse_java_path: recognize(separated_list1(tag("/"), identifier));
\* the number of characters consumed, 0 = error.
ParseJavaPath(s) ==
    LET n == ParseJavaIdentifier(s)
    IN  IF n = 0 THEN 0 ELSE n + PathRest(Drop(s, n))

\* The primitive variants and their tags.
PrimOf(c) ==
    CASE c = "Z" -> "Boolean"
      [] c = "B" -> "Byte"
      [] c = "C" -> "Char"
      [] c = "S" -> "Short"
      [] c = "I" -> "Int"
      [] c = "J" -> "Long"
      [] c = "F" -> "Float"
      [] c = "D" -> "Double"
      [] c = "V" -> "Void"

PrimTags == {"Z", "B", "C", "S", "I", "J", "F", "D", "V"}

SigErr == [ok |-> FALSE]

SigOk(v, rest) == [ok |-> TRUE, val |-> v, rest |-> rest]

\* parse_signature: the alternatives of alt in order.  Every alternative
\* starts with a tag of its own, so the first character selects the only
\* alternative that can succeed.
RECURSIVE ParseSignature(_)
RECURSIVE ParseMany0(_)

\* many0(parse_signature): the signatures parsed and the input left.
ParseMany0(s) ==
    LET r == ParseSignature(s)
    IN  IF ~r.ok
        THEN [vals |-> <<>>, rest |-> s]
        ELSE LET m == ParseMany0(r.rest)
             IN  [vals |-> <<r.val>> \o m.vals, rest |-> m.rest]

ParseSignature(s) ==
    IF s = <<>> THEN SigErr
    ELSE IF Head(s) \in PrimTags
    THEN SigOk([kind |-> PrimOf(Head(s))], Tail(s))
    ELSE IF Head(s) = "L"
    THEN LET n == ParseJavaPath(Tail(s))
             after == Drop(s, 1 + n)
         IN  IF n > 0 /\ after # <<>> /\ Head(after) = ";"
             THEN SigOk([kind |-> "FullyQualifiedClass",
                         path |-> SubSeq(s, 2, 1 + n)], Tail(after))
             ELSE SigErr
    ELSE IF Head(s) = "["
    THEN LET r == ParseSignature(Tail(s))
         IN  IF r.ok
             THEN SigOk([kind |-> "Array", of |-> r.val], r.rest)
             ELSE SigErr
    ELSE IF Head(s) = "("
    THEN LET m == ParseMany0(Tail(s))
         IN  IF m.rest # <<>> /\ Head(m.rest) = ")"
             THEN LET r == ParseSignature(Tail(m.rest))
                  IN  IF r.ok
                      THEN SigOk([kind |-> "Method", args |-> m.vals,
                                  ret |-> r.val], r.rest)
                      ELSE SigErr
             ELSE SigErr
    ELSE SigErr

\* A Signature::new without the eof on what parse_signature left.
SignatureNewPrefix(s) ==
    IF ParseSignature(s).ok
    THEN [ok |-> TRUE, val |-> ParseSignature(s).val]
    ELSE SigErr

\* Signature::new: parse_signature, then eof on what is left.
SignatureNew(s) ==
    LET r == ParseSignature(s)
    IN  IF r.ok /\ r.rest = <<>> THEN [ok |-> TRUE, val |-> r.val] ELSE SigErr

\* The tag jni() writes for a primitive variant.
PrimTag(k) ==
    CASE k = "Boolean" -> "Z"
      [] k = "Byte" -> "B"
      [] k = "Char" -> "C"
      [] k = "Short" -> "S"
      [] k = "Int" -> "I"
      [] k = "Long" -> "J"
      [] k = "Float" -> "F"
      [] k = "Double" -> "D"
      [] k = "Void" -> "V"

\* Concatenation of a sequence of strings.
RECURSIVE ConcatAll(_)
ConcatAll(ss) == IF ss = <<>> THEN <<>> ELSE Head(ss) \o ConcatAll(Tail(ss))

\* A jni() that forgets the ';' closing an object reference.
RECURSIVE JniUnterminated(_)
JniUnterminated(t) ==
    CASE t.kind = "FullyQualifiedClass" -> <<"L">> \o t.path
      [] t.kind = "Array" -> <<"[">> \o JniUnterminated(t.of)
      [] t.kind = "Method" ->
            <<"(">>
            \o ConcatAll([i \in 1..Len(t.args) |-> JniUnterminated(t.args[i])])
            \o <<")">> \o JniUnterminated(t.ret)
      [] OTHER -> <<PrimTag(t.kind)>>

\* Signature::jni: the tree written back as a JNI descriptor.
RECURSIVE Jni(_)
Jni(t) ==
    CASE t.kind = "FullyQualifiedClass" -> <<"L">> \o t.path \o <<";">>
      [] t.kind = "Array" -> <<"[">> \o Jni(t.of)
      [] t.kind = "Method" ->
            <<"(">>
            \o ConcatAll([i \in 1..Len(t.args) |-> Jni(t.args[i])])
            \o <<")">> \o Jni(t.ret)
      [] OTHER -> <<PrimTag(t.kind)>>

SigInputs == SeqsUpTo(SigAlphabet, MaxSigLen) \cup {SigExample}

SigInit ==
    /\ sigPc = "input"
    /\ sigIn \in SigInputs
    /\ sigRes = SigErr
    /\ sigOut = <<>>
    /\ OnlySig

\* Signature::new(sigIn).
SigNew ==
    /\ sigPc = "input"
    /\ sigRes' = SignatureNew(sigIn)
    /\ sigPc' = "parsed"
    /\ UNCHANGED <<sigIn, sigOut, notSig>>

\* parsed.jni() on the tree Signature::new returned.
SigJni ==
    /\ sigPc = "parsed"
    /\ sigRes.ok
    /\ sigOut' = Jni(sigRes.val)
    /\ sigPc' = "encoded"
    /\ UNCHANGED <<sigIn, sigRes, notSig>>

SigNext == SigNew \/ SigJni

SpecSig == SigInit /\ [][SigNext]_vars

\* C1: round trip: whenever Signature::new accepted sigIn and the tree was
\* written back with jni(), the text written is exactly sigIn.
C1_RoundTrip == sigPc = "encoded" => sigOut = sigIn

\* The test's descriptor was accepted as a method (boolean, int) returning
\* java/lang/Object and written back.
C1_Witness ==
    /\ sigPc = "encoded"
    /\ sigIn = SigExample
    /\ sigRes.val.kind = "Method"
    /\ Len(sigRes.val.args) = 2
    /\ sigRes.val.ret.kind = "FullyQualifiedClass"

\* The grammar of descriptors, stated on the text alone: an identifier, a
\* path of identifiers separated by "/", and a signature as one of
\* primitive, L path ;, [ signature, ( signature* ) signature.
IsIdentifier(s) ==
    /\ s # <<>>
    /\ s[1] \in IdentStart
    /\ \A i \in 2..Len(s) : s[i] \in IdentPart

RECURSIVE IsPath(_)
IsPath(s) ==
    \/ IsIdentifier(s)
    \/ \E k \in 2..(Len(s) - 1) :
          /\ s[k] = "/"
          /\ IsIdentifier(SubSeq(s, 1, k - 1))
          /\ IsPath(SubSeq(s, k + 1, Len(s)))

RECURSIVE IsSignature(_)
RECURSIVE IsSignatureList(_)
IsSignatureList(s) ==
    \/ s = <<>>
    \/ \E k \in 1..Len(s) :
          /\ IsSignature(SubSeq(s, 1, k))
          /\ IsSignatureList(SubSeq(s, k + 1, Len(s)))

IsSignature(s) ==
    /\ s # <<>>
    /\ \/ Len(s) = 1 /\ s[1] \in PrimTags
       \/ /\ s[1] = "L"
          /\ s[Len(s)] = ";"
          /\ IsPath(SubSeq(s, 2, Len(s) - 1))
       \/ s[1] = "[" /\ IsSignature(Tail(s))
       \/ /\ s[1] = "("
          /\ \E k \in 2..(Len(s) - 1) :
                /\ s[k] = ")"
                /\ IsSignatureList(SubSeq(s, 2, k - 1))
                /\ IsSignature(SubSeq(s, k + 1, Len(s)))

\* C15: Signature::new succeeds exactly on the texts that are one signature
\* of the grammar; the empty text, a text with characters left after a
\* complete signature, and an object reference with no ';' are rejected.
C15_WholeInput ==
    sigPc \in {"parsed", "encoded"} =>
        /\ sigRes.ok <=> IsSignature(sigIn)
        /\ sigIn = <<>> => ~sigRes.ok
        /\ (\E k \in 1..(Len(sigIn) - 1) : IsSignature(SubSeq(sigIn, 1, k)))
              => ~sigRes.ok
        /\ (sigIn # <<>> /\ sigIn[1] = "L"
              /\ \A i \in DOMAIN sigIn : sigIn[i] # ";") => ~sigRes.ok

\* An object reference followed by one more character was rejected.
C15_Witness ==
    /\ sigPc = "parsed"
    /\ sigIn = <<"L", "I", ";", "I">>
    /\ ~sigRes.ok

(***************************************************************************)
(* LineNumberTable (crates/java_class_parser/src/structures/attributes.rs) *)
(***************************************************************************)

\* Largest start_pc of a table entry; queries go one past it.
MaxPc == 5

\* Most entries in a table.
MaxLnLen == 2

\* The line numbers of the entries.
LnLines == {10, 11}

\* LineNumberTable::pc_to_line: the loop over the table from entry i on,
\* with the result so far.  An entry whose start_pc is below pc ends the
\* loop (break); any other entry's line replaces the result.
RECURSIVE PcToLineFrom(_, _, _, _)
PcToLineFrom(table, i, pc, output) ==
    IF i > Len(table) THEN output
    ELSE IF pc > table[i][1] THEN output
    ELSE PcToLineFrom(table, i + 1, pc, Some(table[i][2]))

PcToLine(table, pc) == PcToLineFrom(table, 1, pc, None)

\* Tables as the compiler writes them: start_pc strictly increasing.
LnTables ==
    {t \in SeqsUpTo((0..MaxPc) \X LnLines, MaxLnLen) :
        \A i \in 1..(Len(t) - 1) : t[i][1] < t[i + 1][1]}

LnInit ==
    /\ lnPc = "input"
    /\ lnTable \in LnTables
    /\ lnQuery \in 0..(MaxPc + 1)
    /\ lnOut = None
    /\ OnlyLn

\* table.pc_to_line(lnQuery).
LnLookup ==
    /\ lnPc = "input"
    /\ lnOut' = PcToLine(lnTable, lnQuery)
    /\ lnPc' = "done"
    /\ UNCHANGED <<lnTable, lnQuery, notLn>>

LnNext == LnLookup

SpecLnt == LnInit /\ [][LnNext]_vars

\* The entries of the table that start at or before pc.
LnCovering(table, pc) == {i \in 1..Len(table) : table[i][1] <= pc}

\* The entry among those with the greatest start_pc.
LnNearest(table, pc) ==
    CHOOSE i \in LnCovering(table, pc) :
        \A j \in LnCovering(table, pc) : table[j][1] <= table[i][1]

\* C2: on a table sorted by start_pc, pc_to_line(pc) is the line of the entry
\* with the greatest start_pc not exceeding pc, and None only when no entry
\* starts at or before pc.
C2_PcToLine ==
    lnPc = "done" =>
        IF LnCovering(lnTable, lnQuery) = {}
        THEN lnOut = None
        ELSE lnOut = Some(lnTable[LnNearest(lnTable, lnQuery)][2])

(***************************************************************************)
(* Constant pool (src/src/constant_pool.rs, constant_pool/parser.rs and    *)
(* the head of parse_class_file_bytes).  A buffer is a sequence of bytes.  *)
(***************************************************************************)

\* Most entries written into a buffer.
MaxPool == 3

\* The build profiles: with overflow checks (debug, test) and without.
Builds == {"debug", "release"}

\* What a nom parser returns, and a panic of the program.
POk(v, rest) == [st |-> "ok", val |-> v, rest |-> rest]

PErr == [st |-> "err"]

PPanic == [st |-> "panic"]

\* be_u16: two bytes, big-endian.
BeU16(b) ==
    IF Len(b) < 2 THEN PErr ELSE POk(b[1] * 256 + b[2], Drop(b, 2))

\* be_u32: four bytes; the value is kept as its bytes.
BeU32(b) == IF Len(b) < 4 THEN PErr ELSE POk(Take(b, 4), Drop(b, 4))

\* tuple((be_u16, be_u16)).
RefInfo(b) ==
    LET x == BeU16(b)
        y == BeU16(x.rest)
    IN  IF x.st # "ok" THEN PErr
        ELSE IF y.st # "ok" THEN PErr
        ELSE POk(<<x.val, y.val>>, y.rest)

\* The tags of the entries whose decoding is todo!().
TodoTags == {8, 3, 4, 5, 6, 15, 16, 18}

\* parse_constant_pool_info: one entry, by its tag byte.
ParseConstantPoolInfo(b) ==
    IF Len(b) < 1 THEN PErr
    ELSE LET tag == b[1]
             body == Tail(b)
         IN  CASE tag = 7 ->
                    LET n == BeU16(body)
                    IN  IF n.st # "ok" THEN PErr
                        ELSE POk([tag |-> "Class", name_index |-> n.val], n.rest)
               [] tag \in {9, 10, 11} ->
                    LET r == RefInfo(body)
                    IN  IF r.st # "ok" THEN PErr
                        ELSE POk([tag |-> CASE tag = 9 -> "FieldRef"
                                            [] tag = 10 -> "MethodRef"
                                            [] tag = 11 -> "InterfaceMethodRef",
                                  class_index |-> r.val[1],
                                  name_and_type_index |-> r.val[2]], r.rest)
               [] tag = 12 ->
                    LET r == RefInfo(body)
                    IN  IF r.st # "ok" THEN PErr
                        ELSE POk([tag |-> "NameAndType",
                                  name_index |-> r.val[1],
                                  descriptor_index |-> r.val[2]], r.rest)
               [] tag = 1 ->
                    LET n == BeU16(body)
                    IN  IF n.st # "ok" THEN PErr
                        ELSE IF Len(n.rest) < n.val THEN PErr
                        ELSE POk([tag |-> "Utf8", bytes |-> Take(n.rest, n.val)],
                                 Drop(n.rest, n.val))
               [] tag \in TodoTags -> PPanic
               [] OTHER -> PPanic

\* parse_constant_pool(length): count(parse_constant_pool_info, length).
RECURSIVE ParseConstantPool(_, _)
ParseConstantPool(length, b) ==
    IF length = 0 THEN POk(<<>>, b)
    ELSE LET r == ParseConstantPoolInfo(b)
         IN  IF r.st # "ok" THEN r
             ELSE LET m == ParseConstantPool(length - 1, r.rest)
                  IN  IF m.st # "ok" THEN m
                      ELSE POk(<<r.val>> \o m.val, m.rest)

\* The head of parse_class_file_bytes: magic, major, minor and
\* constant_pool_count, then constant_pool_count - 1 entries.  The u16
\* subtraction panics on 0 with overflow checks and wraps to 65535 without.
ParseClassHead(build, b) ==
    LET magic == BeU32(b)
        major == BeU16(magic.rest)
        minor == BeU16(major.rest)
        count == BeU16(minor.rest)
    IN  IF magic.st # "ok" THEN PErr
        ELSE IF major.st # "ok" THEN PErr
        ELSE IF minor.st # "ok" THEN PErr
        ELSE IF count.st # "ok" THEN PErr
        ELSE IF count.val = 0 /\ build = "debug" THEN PPanic
        ELSE LET r == ParseConstantPool((count.val - 1) % 65536, count.rest)
             IN  IF r.st # "ok" THEN r
                 ELSE POk([constant_pool_count |-> count.val,
                           constant_pool |-> r.val], r.rest)

\* A get that passes the u16 index to the vector as it is.
ConstantPoolGetUnshifted(build, p, index) ==
    [st |-> "ok", val |-> IF index < Len(p) THEN Some(p[index + 1]) ELSE None]

\* ConstantPool::get: self.pool.get(index as usize - 1).  For index 0 the
\* usize subtraction panics with overflow checks; without them it wraps to
\* usize::MAX, which is past the end of every vector.
ConstantPoolGet(build, p, index) ==
    IF index = 0
    THEN IF build = "debug" THEN PPanic ELSE [st |-> "ok", val |-> None]
    ELSE [st |-> "ok",
          val |-> IF index - 1 < Len(p) THEN Some(p[index]) ELSE None]

\* The entries the buffers are written from; the last one is a tag byte
\* the format does not assign.
PoolEntrySet ==
    {[tag |-> "Utf8", bytes |-> <<>>],
     [tag |-> "Utf8", bytes |-> <<7>>],
     [tag |-> "Class", name_index |-> 1],
     [tag |-> "NameAndType", name_index |-> 1, descriptor_index |-> 258],
     [tag |-> "String", string_index |-> 1],
     [tag |-> "Unassigned", byte |-> 2]}

\* A u16 as the class-file format stores it.
U16Bytes(n) == <<n \div 256, n % 256>>

\* An entry as the class-file format stores it (spec section 6).
EncodeEntry(e) ==
    CASE e.tag = "Utf8" -> <<1>> \o U16Bytes(Len(e.bytes)) \o e.bytes
      [] e.tag = "Class" -> <<7>> \o U16Bytes(e.name_index)
      [] e.tag = "NameAndType" ->
            <<12>> \o U16Bytes(e.name_index) \o U16Bytes(e.descriptor_index)
      [] e.tag = "String" -> <<8>> \o U16Bytes(e.string_index)
      [] e.tag = "Unassigned" -> <<e.byte>>

\* Magic 0xCAFEBABE, then the two version fields.
ClassFileMagic == <<202, 254, 186, 190, 0, 52, 0, 0>>

\* A buffer declaring count c in front of entries es.
PoolBuffer(c, es) ==
    ClassFileMagic \o U16Bytes(c)
    \o ConcatAll([i \in 1..Len(es) |-> EncodeEntry(es[i])])

PoolInit ==
    /\ poolPc = "input"
    /\ poolBuild \in Builds
    /\ poolEntries \in SeqsUpTo(PoolEntrySet, MaxPool)
    /\ poolCount \in 0..(Len(poolEntries) + 2)
    /\ poolBytes = PoolBuffer(poolCount, poolEntries)
    /\ pool = <<>>
    /\ poolIdx = 0
    /\ poolOut = [st |-> "none"]
    /\ OnlyPool

\* parse_class_file_bytes up to the end of the constant pool.
PoolDecode ==
    /\ poolPc = "input"
    /\ LET r == ParseClassHead(poolBuild, poolBytes)
       IN  /\ poolPc' = CASE r.st = "ok" -> "decoded"
                           [] r.st = "err" -> "failed"
                           [] r.st = "panic" -> "panicked"
           /\ pool' = IF r.st = "ok" THEN r.val.constant_pool ELSE <<>>
    /\ UNCHANGED <<poolBuild, poolBytes, poolEntries, poolCount, poolIdx,
                   poolOut, notPool>>

\* constant_pool.get(index) on the decoded pool.
PoolGet ==
    /\ poolPc = "decoded"
    /\ \E index \in 0..(MaxPool + 2) :
          /\ poolIdx' = index
          /\ poolOut' = ConstantPoolGet(poolBuild, pool, index)
    /\ poolPc' = "got"
    /\ UNCHANGED <<poolBuild, poolBytes, poolEntries, poolCount, pool,
                   notPool>>

PoolNext == PoolDecode \/ PoolGet

SpecPool == PoolInit /\ [][PoolNext]_vars

\* C3: get(0) returns None for every pool: it never panics and never
\* returns an entry.
C3_GetZero ==
    (poolPc = "got" /\ poolIdx = 0) => poolOut = [st |-> "ok", val |-> None]

\* C4: for a pool decoded with declared count c, get(i) is the i-th entry of
\* the file for every i in 1..c-1, and None for every i >= c.
C4_PoolIndexing ==
    (poolPc = "got" /\ poolIdx >= 1) =>
        IF poolIdx <= poolCount - 1
        THEN poolOut = [st |-> "ok", val |-> Some(poolEntries[poolIdx])]
        ELSE poolOut = [st |-> "ok", val |-> None]

\* C16: decoding a buffer ends in a class or in an error value, whatever
\* the tag bytes and the declared count are: it never panics.
C16_DecodeNeverCrashes == poolPc # "panicked"

\* A pool of three entries declared with count 3: get(2) returned the second
\* entry, the third was left undecoded.
C4_Witness ==
    /\ poolPc = "got"
    /\ poolCount = 3
    /\ Len(poolEntries) = 3
    /\ Len(pool) = 2
    /\ poolIdx = 2
    /\ poolOut = [st |-> "ok", val |-> Some(poolEntries[2])]

(***************************************************************************)
(* The disk: what the classpath entries name.  A location is a directory,  *)
(* a file or nothing; a directory and a valid archive hold files by        *)
(* relative path.  A path is a sequence of names, "/" and ".".             *)
(***************************************************************************)

AClassPath == <<"A", ".", "class">>

BClassPath == <<"B", ".", "class">>

\* The content of the file at path p in location l: which copy it is.
Copy(l, p) == [from |-> l, path |-> p]

Dir(paths, l) ==
    [fs |-> "dir", ext |-> "", zip |-> FALSE,
     files |-> [p \in paths |-> Copy(l, p)]]

Archive(ext, paths, l) ==
    [fs |-> "file", ext |-> ext, zip |-> TRUE,
     files |-> [p \in paths |-> Copy(l, p)]]

PlainFile(ext) == [fs |-> "file", ext |-> ext, zip |-> FALSE, files |-> <<>>]

\* Bytes that are no class file, and the bytes of a class: its name, its
\* superclass, its interfaces, and which copy on the disk it is.
NoClass == [valid |-> FALSE]

ClassBytes(this, super, interfaces, l) ==
    [valid |-> TRUE,
     class |-> [this |-> this, super_name |-> super,
                interfaces |-> interfaces, copy |-> l]]

\* A directory, a jar and a lone file holding class files.
ClassDir(files) == [fs |-> "dir", ext |-> "", zip |-> FALSE, files |-> files]

ClassJar(ext, files) ==
    [fs |-> "file", ext |-> ext, zip |-> TRUE, files |-> files]

ClassFile(bytes) ==
    [fs |-> "file", ext |-> "class", zip |-> FALSE, files |-> <<>>,
     self |-> bytes]

Missing(ext) == [fs |-> "missing", ext |-> ext, zip |-> FALSE, files |-> <<>>]

\* The locations a classpath can name.
CpLocations ==
    {"dirA", "dirAB", "a.jar", "ab.zip", "bad.jar", "gone.jar", "notes.txt",
     "A.class"}

CpDisk ==
    [l \in CpLocations |->
        CASE l = "dirA" -> Dir({AClassPath}, l)
          [] l = "dirAB" -> Dir({AClassPath, BClassPath}, l)
          [] l = "a.jar" -> Archive("jar", {AClassPath}, l)
          [] l = "ab.zip" -> Archive("zip", {AClassPath, BClassPath}, l)
          [] l = "bad.jar" -> PlainFile("jar")
          [] l = "gone.jar" -> Missing("jar")
          [] l = "notes.txt" -> PlainFile("txt")
          [] l = "A.class" -> PlainFile("class")]

(***************************************************************************)
(* Classpath resolver (crates/java_classpaths/src/lib.rs).                 *)
(***************************************************************************)

\* Most entries on a classpath.
MaxCpLen == 2

\* Most lookups made on one resolver.
MaxLookups == 2

\* path.trim_start_matches("/").
RECURSIVE TrimStartSlashes(_)
TrimStartSlashes(path) ==
    IF path # <<>> /\ Head(path) = "/" THEN TrimStartSlashes(Tail(path))
    ELSE path

\* A resource and where it was read from.
Resource(l, p, content) == [url |-> <<l, p>>, content |-> content]

\* Classpath::get_in_dir: Some when dir.join(entry) exists.
GetInDir(disk, l, entry) ==
    IF entry \in DOMAIN disk[l].files
    THEN Some([ok |-> TRUE, res |-> Resource(l, entry, disk[l].files[entry])])
    ELSE None

\* Classpath::get_in_archive: File::open, ZipArchive::new, by_name.  No
\* handle is kept: every call opens the file again.  opened says whether
\* File::open succeeded.
GetInArchive(disk, l, entry) ==
    IF disk[l].fs # "file"
    THEN [ok |-> FALSE, opened |-> FALSE]
    ELSE IF ~disk[l].zip
    THEN [ok |-> FALSE, opened |-> TRUE]
    ELSE IF entry \in DOMAIN disk[l].files
    THEN [ok |-> TRUE, opened |-> TRUE,
          val |-> Some(Resource(l, entry, disk[l].files[entry]))]
    ELSE [ok |-> TRUE, opened |-> TRUE, val |-> None]

\* The loop of Classpath::get from entry i on: the result, the entries
\* examined and the archive files opened, each in order.
RECURSIVE GetFrom(_, _, _, _)
GetFrom(disk, paths, i, stripped) ==
    IF i > Len(paths)
    THEN [out |-> None, consulted |-> <<>>, opened |-> <<>>]
    ELSE LET l == paths[i]
             rest == GetFrom(disk, paths, i + 1, stripped)
             skip(opened) ==
                [out |-> rest.out,
                 consulted |-> <<i>> \o rest.consulted,
                 opened |-> opened \o rest.opened]
         IN  IF disk[l].fs = "dir"
             THEN LET d == GetInDir(disk, l, stripped)
                  IN  IF d.some
                      THEN [out |-> d, consulted |-> <<i>>, opened |-> <<>>]
                      ELSE skip(<<>>)
             ELSE IF disk[l].ext \in {"jar", "zip"}
             THEN LET a == GetInArchive(disk, l, stripped)
                      o == IF a.opened THEN <<l>> ELSE <<>>
                  IN  IF ~a.ok
                      THEN [out |-> Some([ok |-> FALSE, at |-> l]),
                            consulted |-> <<i>>, opened |-> o]
                      ELSE IF a.val.some
                      THEN [out |-> Some([ok |-> TRUE, res |-> a.val.val]),
                            consulted |-> <<i>>, opened |-> o]
                      ELSE skip(o)
             ELSE skip(<<>>)

\* A get that keeps the match of the last entry instead of the first.
ClasspathGetLastWins(disk, paths, path) ==
    LET stripped == TrimStartSlashes(path)
        rev == [i \in 1..Len(paths) |-> paths[Len(paths) + 1 - i]]
        r == GetFrom(disk, rev, 1, stripped)
    IN  [out |-> r.out,
         consulted |-> [k \in 1..Len(r.consulted) |->
                            Len(paths) + 1 - r.consulted[k]],
         opened |-> r.opened]

\* Classpath::get.
ClasspathGet(disk, paths, path) ==
    GetFrom(disk, paths, 1, TrimStartSlashes(path))

\* The number of times x occurs in sequence s.
Count(s, x) == Cardinality({k \in 1..Len(s) : s[k] = x})

\* The resource paths asked for.
CpQueries == {AClassPath, <<"/">> \o AClassPath, BClassPath}

\* A classpath names each location once.
CpClasspaths ==
    {c \in SeqsUpTo(CpLocations, MaxCpLen) :
        \A i, j \in 1..Len(c) : i # j => c[i] # c[j]}

CpInit ==
    /\ cpPaths \in CpClasspaths
    /\ cpQuery = <<>>
    /\ cpOut = None
    /\ cpConsulted = <<>>
    /\ cpOpens = [l \in CpLocations |-> 0]
    /\ cpLookups = 0
    /\ OnlyCp

\* classpath.get(path).
CpGet ==
    /\ cpLookups < MaxLookups
    /\ \E path \in CpQueries :
          LET r == ClasspathGet(CpDisk, cpPaths, path)
          IN  /\ cpQuery' = path
              /\ cpOut' = r.out
              /\ cpConsulted' = r.consulted
              /\ cpOpens' = [l \in CpLocations |->
                                cpOpens[l] + Count(r.opened, l)]
    /\ cpLookups' = cpLookups + 1
    /\ UNCHANGED <<cpPaths, notCp>>

CpNext == CpGet

SpecCp == CpInit /\ [][CpNext]_vars

\* The entries of the classpath that hold the path asked for.
CpHits ==
    {i \in 1..Len(cpPaths) :
        /\ CpDisk[cpPaths[i]].fs = "dir" \/ CpDisk[cpPaths[i]].zip
        /\ TrimStartSlashes(cpQuery) \in DOMAIN CpDisk[cpPaths[i]].files}

\* The entries named as archives that cannot be read as one.
CpBroken ==
    {i \in 1..Len(cpPaths) :
        /\ CpDisk[cpPaths[i]].fs # "dir"
        /\ CpDisk[cpPaths[i]].ext \in {"jar", "zip"}
        /\ ~CpDisk[cpPaths[i]].zip}

Least(S) == CHOOSE i \in S : \A j \in S : i <= j

C8_OpenedOnce == \A l \in DOMAIN cpOpens : cpOpens[l] <= 1

(***************************************************************************)
(* JavaClassParser (crates/java_class_parser/src/lib.rs).  A fully         *)
(* qualified name is a sequence of names, "/" and ".".                     *)
(***************************************************************************)

\* Most entries of a declared classpath.
MaxPsLen == 2

\* Most finds made on one parser.
MaxFinds == 2

AName == <<"A">>

BName == <<"B">>

CName == <<"C">>

\* The superclass every hierarchy ends in; never on the classpath.
ObjectName == <<"java", "/", "lang", "/", "Object">>

\* The position of the last element of s equal to x, 0 if there is none.
RECURSIVE LastIndexOf(_, _)
LastIndexOf(s, x) ==
    IF s = <<>> THEN 0
    ELSE IF s[Len(s)] = x THEN Len(s)
    ELSE LastIndexOf(Take(s, Len(s) - 1), x)

\* Path::with_extension("class"): in the last component of the path, the
\* text after its last '.' (a '.' that does not start the component) is
\* replaced; without such a '.', ".class" is appended.
WithExtensionClass(path) ==
    LET slash == LastIndexOf(path, "/")
        dot == LastIndexOf(path, ".")
    IN  IF dot > slash + 1
        THEN Take(path, dot - 1) \o <<".", "class">>
        ELSE path \o <<".", "class">>

\* parse_bytes / parse_file on the bytes of a file.
ParseBytes(bytes) ==
    IF bytes.valid THEN [ok |-> TRUE, class |-> bytes.class]
    ELSE [ok |-> FALSE, err |-> [kind |-> "Decode"]]

Found(class, zips, reads, opens) ==
    [st |-> "some", class |-> class, zips |-> zips, reads |-> reads,
     opens |-> opens]

NotHere(zips, reads, opens) ==
    [st |-> "none", zips |-> zips, reads |-> reads, opens |-> opens]

Failed(err, zips, reads, opens) ==
    [st |-> "err", err |-> err, zips |-> zips, reads |-> reads,
     opens |-> opens]

\* JavaClassParser::find_class_in_entry on entry l with the archives in
\* zips open: the outcome, the archives open afterwards, and the number of
\* class files read and of archive files opened.
FindClassInEntry(disk, zips, l, name) ==
    IF disk[l].fs = "file"
    THEN CASE disk[l].ext = "class" ->
                LET parsed == ParseBytes(disk[l].self)
                IN  IF ~parsed.ok THEN Failed(parsed.err, zips, 1, 0)
                    ELSE IF parsed.class.this = name
                    THEN Found(parsed.class, zips, 1, 0)
                    ELSE NotHere(zips, 1, 0)
           [] disk[l].ext = "jar" ->
                IF l \notin zips /\ ~disk[l].zip
                THEN Failed([kind |-> "Zip"], zips, 0, 1)
                ELSE LET opens == IF l \in zips THEN 0 ELSE 1
                         open == zips \cup {l}
                         file == WithExtensionClass(name)
                     IN  IF file \in DOMAIN disk[l].files
                         THEN LET parsed == ParseBytes(disk[l].files[file])
                              IN  IF parsed.ok
                                  THEN Found(parsed.class, open, 1, opens)
                                  ELSE Failed(parsed.err, open, 1, opens)
                         ELSE NotHere(open, 0, opens)
           [] OTHER ->
                Failed([kind |-> "UnsupportedEntry", path |-> l], zips, 0, 0)
    ELSE IF disk[l].fs = "dir"
    THEN LET file == WithExtensionClass(name)
         IN  IF file \in DOMAIN disk[l].files
             THEN LET parsed == ParseBytes(disk[l].files[file])
                  IN  IF parsed.ok
                      THEN Found(parsed.class, zips, 1, 0)
                      ELSE Failed(parsed.err, zips, 1, 0)
             ELSE NotHere(zips, 0, 0)
    ELSE Failed([kind |-> "UnsupportedEntry", path |-> l], zips, 0, 0)

\* The loop of JavaClassParser::find_class over the entries from i on, in
\* the order the class_path set yields them.
RECURSIVE FindClassFrom(_, _, _, _, _)
FindClassFrom(disk, order, zips, i, name) ==
    IF i > Len(order)
    THEN Failed([kind |-> "NoClassFound", name |-> name], zips, 0, 0)
    ELSE LET r == FindClassInEntry(disk, zips, order[i], name)
         IN  IF r.st # "none" THEN r
             ELSE LET m == FindClassFrom(disk, order, r.zips, i + 1, name)
                  IN  [m EXCEPT !.reads = @ + r.reads, !.opens = @ + r.opens]

\* A find_class whose not-found error does not say which name.
FindClassAnonymous(disk, order, zips, name) ==
    IF FindClassFrom(disk, order, zips, 1, name).st = "err"
       /\ FindClassFrom(disk, order, zips, 1, name).err.kind = "NoClassFound"
    THEN [FindClassFrom(disk, order, zips, 1, name) EXCEPT
             !.err = [kind |-> "NoClassFound", name |-> <<>>]]
    ELSE FindClassFrom(disk, order, zips, 1, name)

FindClass(disk, order, zips, name) == FindClassFrom(disk, order, zips, 1, name)

\* The state of a parser, and what a call leaves behind.
Parser(order, cache, zips, io) ==
    [order |-> order, cache |-> cache, zips |-> zips, io |-> io]

\* A second half of find that keeps in the cache the class found last and
\* no other.
SearchedForgetful(ps, name, r) ==
    IF r.st = "err"
    THEN [out |-> [ok |-> FALSE, err |-> r.err],
          ps |-> Parser(ps.order, ps.cache, r.zips,
                        [searches |-> ps.io.searches + 1,
                         reads |-> ps.io.reads + r.reads,
                         opens |-> ps.io.opens + r.opens])]
    ELSE [out |-> [ok |-> TRUE, class |-> r.class],
          ps |-> Parser(ps.order, name :> r.class, r.zips,
                        [searches |-> ps.io.searches + 1,
                         reads |-> ps.io.reads + r.reads,
                         opens |-> ps.io.opens + r.opens])]

\* The second half of find, after find_class returned r: an error is passed
\* on, a class is inserted into the cache and returned.
Searched(ps, name, r) ==
    IF r.st = "err"
    THEN [out |-> [ok |-> FALSE, err |-> r.err],
          ps |-> Parser(ps.order, ps.cache, r.zips,
                        [searches |-> ps.io.searches + 1,
                         reads |-> ps.io.reads + r.reads,
                         opens |-> ps.io.opens + r.opens])]
    ELSE [out |-> [ok |-> TRUE, class |-> r.class],
          ps |-> Parser(ps.order,
                        [n \in DOMAIN ps.cache \cup {name} |->
                            IF n = name THEN r.class ELSE ps.cache[n]],
                        r.zips,
                        [searches |-> ps.io.searches + 1,
                         reads |-> ps.io.reads + r.reads,
                         opens |-> ps.io.opens + r.opens])]

\* A find that searches the classpath even when the name is cached.
ParserFindUncached(disk, ps, name) ==
    Searched(ps, name, FindClass(disk, ps.order, ps.zips, name))

\* JavaClassParser::find: the cached class, or find_class and an insert.
ParserFind(disk, ps, name) ==
    IF name \in DOMAIN ps.cache
    THEN [out |-> [ok |-> TRUE, class |-> ps.cache[name]], ps |-> ps]
    ELSE Searched(ps, name, FindClass(disk, ps.order, ps.zips, name))

\* The locations a parser's classpath can name.
PsLocations ==
    {"classes", "lib", "a.jar", "ab.zip", "bad.jar", "A.class", "notes.txt",
     "gone", "classes.jar"}

\* The class of the crate's example, named with '/' and with '.'.
TestClassName == <<"com", "/", "example", "/", "TestClass">>

TestClassDotted == <<"com", ".", "example", ".", "TestClass">>

PsDisk ==
    [l \in PsLocations |->
        CASE l = "classes" ->
                ClassDir((AClassPath :> ClassBytes(AName, BName, <<>>, l))
                         @@ (BClassPath
                                :> ClassBytes(BName, ObjectName, <<>>, l)))
          [] l = "lib" ->
                ClassDir((AClassPath :> ClassBytes(AName, BName, <<>>, l))
                         @@ (BClassPath :> NoClass))
          [] l = "a.jar" ->
                ClassJar("jar",
                         AClassPath :> ClassBytes(AName, BName, <<>>, l))
          [] l = "ab.zip" ->
                ClassJar("zip",
                         AClassPath :> ClassBytes(AName, BName, <<>>, l))
          [] l = "bad.jar" -> PlainFile("jar")
          [] l = "A.class" -> ClassFile(ClassBytes(AName, BName, <<>>, l))
          [] l = "notes.txt" -> PlainFile("txt")
          [] l = "gone" -> Missing("")
          [] l = "classes.jar" ->
                ClassJar("jar",
                         WithExtensionClass(TestClassName)
                            :> ClassBytes(TestClassName, ObjectName, <<>>, l))]

\* The names asked for.
PsNames == {AName, BName, CName, TestClassName, TestClassDotted}

\* The elements of a sequence.
Range(s) == {s[i] : i \in 1..Len(s)}

\* The orders in which a HashSet built from the declared entries can yield
\* them: each distinct entry once, in any order.
SetOrders(declared) ==
    {o \in [1..Cardinality(Range(declared)) -> Range(declared)] :
        \A i, j \in DOMAIN o : i # j => o[i] # o[j]}

\* JavaClassParser::new / from_iter: the entries are collected into a set.
PsInit ==
    /\ psDeclared \in SeqsUpTo(PsLocations, MaxPsLen)
    /\ psOrder \in SetOrders(psDeclared)
    /\ psCache = <<>>
    /\ psZips = {}
    /\ psName = <<>>
    /\ psOut = NoResult
    /\ psFirst = <<>>
    /\ psFinds = 0
    /\ psIo = [searches |-> 0, reads |-> 0, opens |-> 0]
    /\ OnlyPs

\* parser.find(name).
PsFind ==
    /\ psFinds < MaxFinds
    /\ \E name \in PsNames :
          LET r == ParserFind(PsDisk, Parser(psOrder, psCache, psZips, psIo),
                              name)
          IN  /\ psName' = name
              /\ psOut' = r.out
              /\ psCache' = r.ps.cache
              /\ psZips' = r.ps.zips
              /\ psIo' = r.ps.io
              /\ psFirst' = IF r.out.ok /\ name \notin DOMAIN psFirst
                            THEN psFirst @@ (name :> r.out.class)
                            ELSE psFirst
    /\ psFinds' = psFinds + 1
    /\ UNCHANGED <<psDeclared, psOrder, notPs>>

PsNext == PsFind

SpecPs == PsInit /\ [][PsNext]_vars

\* Whether entry l holds the class called name.
PsHolds(l, name) ==
    \/ /\ PsDisk[l].fs = "dir" \/ (PsDisk[l].fs = "file" /\ PsDisk[l].zip)
       /\ WithExtensionClass(name) \in DOMAIN PsDisk[l].files
    \/ /\ PsDisk[l].fs = "file" /\ PsDisk[l].ext = "class"
       /\ PsDisk[l].self.valid
       /\ PsDisk[l].self.class.this = name

\* C6: find searches the entries in the order they were declared and returns
\* the class from the first entry that holds it: a class returned is the
\* copy held by the first declared entry holding the name.
C6_DeclaredOrder ==
    (psFinds > 0 /\ psOut.ok) =>
        LET holders == {i \in 1..Len(psDeclared) :
                            PsHolds(psDeclared[i], psName)}
        IN  /\ holders # {}
            /\ psOut.class.copy = psDeclared[Least(holders)]

\* C7: once find(name) has succeeded, a later find(name) returns a class
\* equal to the first one and makes no classpath search, file read or
\* archive open.
C7_IdempotentCaching ==
    [][(psFinds' = psFinds + 1 /\ psName' \in DOMAIN psFirst) =>
          /\ psOut' = [ok |-> TRUE, class |-> psFirst[psName']]
          /\ psIo' = psIo
          /\ psZips' = psZips]_vars

\* An entry the search can use: a directory, or a file named .class, .jar
\* or .zip.
PsSupported(l) ==
    \/ PsDisk[l].fs = "dir"
    \/ PsDisk[l].fs = "file" /\ PsDisk[l].ext \in {"class", "jar", "zip"}

\* C18: the first find of a parser reaches the first entry of its classpath;
\* when that entry is neither a directory nor a .class, .jar or .zip file
\* the find fails with UnsupportedEntry naming it, and when it is a .jar or
\* a .zip archive holding the class the find returns the archive's copy.
C18_UnsupportedEntry ==
    (psFinds = 1 /\ psOrder # <<>>) =>
        /\ ~PsSupported(psOrder[1]) =>
              psOut = [ok |-> FALSE,
                       err |-> [kind |-> "UnsupportedEntry",
                                path |-> psOrder[1]]]
        /\ (PsDisk[psOrder[1]].zip /\ PsHolds(psOrder[1], psName)) =>
              psOut.ok /\ psOut.class.copy = psOrder[1]

\* FQName's derived PartialEq, Eq and Hash: those of the text.
FQNameEq(a, b) == a = b

\* C19: '/' and '.' delimit a name alike: the two spellings of a name are
\* equal, a find of the dotted spelling gives what a find of the slashed
\* one gives on the same parser, and the class is cached under one entry.
C19_DelimiterEquivalence ==
    /\ (psFinds = 1 /\ psName = TestClassDotted) =>
          /\ psOut = ParserFind(PsDisk,
                                Parser(psOrder, <<>>, {},
                                       [searches |-> 0, reads |-> 0,
                                        opens |-> 0]),
                                TestClassName).out
          /\ FQNameEq(psName, TestClassName)
    /\ TestClassName \in DOMAIN psCache => TestClassDotted \in DOMAIN psCache

\* C30: a find that returns an error leaves the cache as it was, and so
\* does a find of a name that is cached; a find that succeeds for a name
\* that is not cached adds one entry, the class returned under the name
\* asked for; every entry of the cache stays in it with the class it had.
C30_CacheGrows ==
    [][psFinds' = psFinds + 1 =>
          /\ ~psOut'.ok => psCache' = psCache
          /\ psName' \in DOMAIN psCache => psCache' = psCache
          /\ (psOut'.ok /\ psName' \notin DOMAIN psCache) =>
                /\ DOMAIN psCache' = DOMAIN psCache \cup {psName'}
                /\ psCache'[psName'] = psOut'.class
          /\ \A n \in DOMAIN psCache :
                n \in DOMAIN psCache' /\ psCache'[n] = psCache[n]]_vars

\* A second class has been found and cached beside the first.
C30_Witness ==
    /\ psFinds = 2
    /\ psOut.ok
    /\ Cardinality(DOMAIN psCache) = 2
    /\ psCache[psName] = psOut.class

\* Two finds of A on a parser over one jar: one search, one read, one open.
C7_Witness ==
    /\ psFinds = 2
    /\ psDeclared = <<"a.jar">>
    /\ psName = AName
    /\ AName \in DOMAIN psFirst
    /\ psOut = [ok |-> TRUE, class |-> psFirst[AName]]
    /\ psIo = [searches |-> 1, reads |-> 1, opens |-> 1]

(***************************************************************************)
(* InheritanceGraph and inspect                                            *)
(* (crates/java_class_parser/src/inheritance.rs).  The graph is petgraph's *)
(* DiGraph: nodes and edges are numbered in insertion order, and each node *)
(* heads a linked list of its outgoing edges onto which add_edge pushes    *)
(* the new edge at the front.                                              *)
(***************************************************************************)

\* Most interface declarations in one hierarchy.
MaxIfaces == 2

ShapeName == <<"com", "/", "example", "/", "Shape">>

QuadName == <<"com", "/", "example", "/", "Quad">>

RectangleName == <<"com", "/", "example", "/", "Rectangle">>

SquareName == <<"com", "/", "example", "/", "Square">>

\* A find_super that no longer finds a superclass once it is cached.
FindSuperOnce(disk, ps, class) ==
    IF class.super_name \in DOMAIN ps.cache
    THEN [out |-> [ok |-> FALSE,
                   err |-> [kind |-> "NoClassFound",
                            name |-> class.super_name]],
          ps |-> ps]
    ELSE ParserFind(disk, ps, class.super_name)

\* JavaClassParser::find_super.
FindSuper(disk, ps, class) == ParserFind(disk, ps, class.super_name)

\* JavaClassParser::find_interfaces from the i-th declared interface on,
\* r being the result of find for it: a name that is not found is left
\* out, any other error ends the call.
RECURSIVE FindInterfacesFrom(_, _, _, _, _)
\* A find_interfaces that passes every error on, not found included.
FoundInterfaceStrict(disk, names, i, found, r) ==
    IF r.out.ok
    THEN FindInterfacesFrom(disk, r.ps, names, i + 1,
                            Append(found, r.out.class))
    ELSE [ok |-> FALSE, err |-> r.out.err, ps |-> r.ps]

FoundInterface(disk, names, i, found, r) ==
    IF r.out.ok
    THEN FindInterfacesFrom(disk, r.ps, names, i + 1,
                            Append(found, r.out.class))
    ELSE IF r.out.err.kind = "NoClassFound"
    THEN FindInterfacesFrom(disk, r.ps, names, i + 1, found)
    ELSE [ok |-> FALSE, err |-> r.out.err, ps |-> r.ps]

FindInterfacesFrom(disk, ps, names, i, found) ==
    IF i > Len(names)
    THEN [ok |-> TRUE, classes |-> found, ps |-> ps]
    ELSE FoundInterface(disk, names, i, found,
                        ParserFind(disk, ps, names[i]))

FindInterfaces(disk, ps, class) ==
    FindInterfacesFrom(disk, ps, class.interfaces, 1, <<>>)

\* InheritanceGraph::new.
GraphNew(class) ==
    [nodes |-> <<class.this>>,
     edges |-> <<>>,
     mapping |-> (class.this :> [class |-> class, index |-> 1]),
     root |-> class.this]

\* An add_class that reports every class as new.
AddClassAlways(g, class) ==
    IF class.this \in DOMAIN g.mapping
    THEN [added |-> TRUE, graph |-> g]
    ELSE [added |-> TRUE,
          graph |-> [g EXCEPT
                        !.nodes = Append(g.nodes, class.this),
                        !.mapping = g.mapping @@
                           (class.this :> [class |-> class,
                                           index |-> Len(g.nodes) + 1])]]

\* InheritanceGraph::add_class.
AddClass(g, class) ==
    IF class.this \in DOMAIN g.mapping
    THEN [added |-> FALSE, graph |-> g]
    ELSE [added |-> TRUE,
          graph |-> [g EXCEPT
                        !.nodes = Append(@, class.this),
                        !.mapping = @ @@ (class.this :>
                                            [class |-> class,
                                             index |-> Len(g.nodes) + 1])]]

\* DiGraph::contains_edge.
ContainsEdge(g, a, b) ==
    \E i \in 1..Len(g.edges) : g.edges[i].from = a /\ g.edges[i].to = b

\* An add_inheritance that adds the edge whether or not the pair has one.
AddInheritanceUnchecked(g, class, inherits, ty) ==
    IF class \notin DOMAIN g.mapping \/ inherits \notin DOMAIN g.mapping
    THEN [added |-> FALSE, graph |-> g]
    ELSE [added |-> TRUE,
          graph |-> [g EXCEPT
                       !.edges = Append(@, [from |-> g.mapping[class].index,
                                            to |-> g.mapping[inherits].index,
                                            kind |-> ty])]]

\* An add_inheritance that rejects an edge only when the pair has one of
\* the same kind.
AddInheritanceByKind(g, class, inherits, ty) ==
    IF class \notin DOMAIN g.mapping \/ inherits \notin DOMAIN g.mapping
    THEN [added |-> FALSE, graph |-> g]
    ELSE IF [from |-> g.mapping[class].index,
             to |-> g.mapping[inherits].index,
             kind |-> ty] \in {g.edges[i] : i \in 1..Len(g.edges)}
    THEN [added |-> FALSE, graph |-> g]
    ELSE [added |-> TRUE,
          graph |-> [g EXCEPT
                       !.edges = Append(@, [from |-> g.mapping[class].index,
                                            to |-> g.mapping[inherits].index,
                                            kind |-> ty])]]

\* An add_inheritance that draws the edge from the parent to the class.
AddInheritanceReversed(g, class, inherits, ty) ==
    IF class \notin DOMAIN g.mapping \/ inherits \notin DOMAIN g.mapping
    THEN [added |-> FALSE, graph |-> g]
    ELSE IF ContainsEdge(g, g.mapping[inherits].index, g.mapping[class].index)
    THEN [added |-> FALSE, graph |-> g]
    ELSE [added |-> TRUE,
          graph |-> [g EXCEPT
                       !.edges = Append(@, [from |-> g.mapping[inherits].index,
                                            to |-> g.mapping[class].index,
                                            kind |-> ty])]]

\* InheritanceGraph::add_inheritance.
AddInheritance(g, class, inherits, ty) ==
    IF class \notin DOMAIN g.mapping \/ inherits \notin DOMAIN g.mapping
    THEN [added |-> FALSE, graph |-> g]
    ELSE LET a == g.mapping[class].index
             b == g.mapping[inherits].index
         IN  IF ContainsEdge(g, a, b)
             THEN [added |-> FALSE, graph |-> g]
             ELSE [added |-> TRUE,
                   graph |-> [g EXCEPT
                                !.edges = Append(@, [from |-> a, to |-> b,
                                                     kind |-> ty])]]

\* DiGraph::edges(a): the outgoing edges of a among the first i edges,
\* walked from the head of a's list, the edge added last first.
RECURSIVE GraphEdges(_, _, _)
GraphEdges(g, a, i) ==
    IF i = 0 THEN <<>>
    ELSE IF g.edges[i].from = a
    THEN <<g.edges[i]>> \o GraphEdges(g, a, i - 1)
    ELSE GraphEdges(g, a, i - 1)

\* InheritanceGraph::get_class.
GetClass(g, node_index) == g.mapping[g.nodes[node_index]].class

\* The while loop of InheritanceGraph::inherits.
RECURSIVE InheritsLoop(_, _, _, _)
InheritsLoop(g, outout, visited, queue) ==
    IF queue = <<>> THEN outout
    ELSE LET ptr == Head(queue)
         IN  IF ptr \in visited
             THEN InheritsLoop(g, outout, visited, Tail(queue))
             ELSE LET inherits == GraphEdges(g, g.mapping[ptr].index,
                                             Len(g.edges))
                      fresh == SelectSeq(inherits,
                                   LAMBDA e :
                                       GetClass(g, e.to).this \notin visited)
                  IN  InheritsLoop(
                          g,
                          outout \o [i \in 1..Len(fresh) |->
                                        [class |-> GetClass(g, fresh[i].to),
                                         kind |-> fresh[i].kind]],
                          visited \cup {ptr},
                          Tail(queue) \o [i \in 1..Len(fresh) |->
                                            GetClass(g, fresh[i].to).this])

\* An inherits that answers a name outside the graph with an empty list.
InheritsLenient(g, fq_name) ==
    IF fq_name \notin DOMAIN g.mapping
    THEN [ok |-> TRUE, list |-> <<>>]
    ELSE [ok |-> TRUE, list |-> InheritsLoop(g, <<>>, {}, <<fq_name>>)]

\* InheritanceGraph::inherits.
Inherits(g, fq_name) ==
    IF fq_name \notin DOMAIN g.mapping
    THEN [ok |-> FALSE, err |-> [kind |-> "NoClassFound", name |-> fq_name]]
    ELSE [ok |-> TRUE, list |-> InheritsLoop(g, <<>>, {}, <<fq_name>>)]

\* One parent of class, found on the classpath, handled by inspect:
\* add_class (c is its result), a push when the parent is new, then
\* add_inheritance.
AddedParent(stack, class, parent, ty, c) ==
    [ok |-> AddInheritance(c.graph, class.this, parent.this, ty).added,
     graph |-> AddInheritance(c.graph, class.this, parent.this, ty).graph,
     stack |-> IF c.added THEN Append(stack, parent) ELSE stack]

AddParent(graph, stack, class, parent, ty) ==
    AddedParent(stack, class, parent, ty, AddClass(graph, parent))

\* The for loop of inspect over the interfaces found, from the i-th on; r
\* is what handling the i-th left.
RECURSIVE AddInterfaces(_, _, _, _, _)
AddedInterface(class, interfaces, i, r) ==
    IF r.ok
    THEN AddInterfaces(r.graph, r.stack, class, interfaces, i + 1)
    ELSE r

AddInterfaces(graph, stack, class, interfaces, i) ==
    IF i > Len(interfaces)
    THEN [ok |-> TRUE, graph |-> graph, stack |-> stack]
    ELSE AddedInterface(class, interfaces, i,
                        AddParent(graph, stack, class, interfaces[i],
                                  "Implements"))

AddingInheritanceFailed(class) ==
    [kind |-> "AddingInheritanceFailed", name |-> class.this]

\* The while loop of inspect: the class on top of the stack is expanded.
RECURSIVE InspectLoop(_, _, _, _)
\* The end of an iteration, t being what the interfaces left.
InspectAdded(disk, ps, class, t) ==
    IF ~t.ok
    THEN [ok |-> FALSE, err |-> AddingInheritanceFailed(class), ps |-> ps]
    ELSE InspectLoop(disk, ps, t.graph, t.stack)

\* The interfaces of class, found being the result of find_interfaces and
\* s what the superclass left.
InspectInterfaces(disk, class, s, found) ==
    IF ~found.ok
    THEN [ok |-> FALSE, err |-> found.err, ps |-> found.ps]
    ELSE InspectAdded(disk, found.ps, class,
                      AddInterfaces(s.graph, s.stack, class, found.classes,
                                    1))

\* After the superclass of class was handled, leaving s.
InspectExtended(disk, ps, class, s) ==
    IF ~s.ok
    THEN [ok |-> FALSE, err |-> AddingInheritanceFailed(class), ps |-> ps]
    ELSE InspectInterfaces(disk, class, s, FindInterfaces(disk, ps, class))

\* The superclass of class, sup being the result of find_super: not found
\* means no superclass to add, any other error ends inspect.
InspectSuper(disk, graph, stack, class, sup) ==
    IF ~sup.out.ok /\ sup.out.err.kind # "NoClassFound"
    THEN [ok |-> FALSE, err |-> sup.out.err, ps |-> sup.ps]
    ELSE InspectExtended(disk, sup.ps, class,
                         IF sup.out.ok
                         THEN AddParent(graph, stack, class, sup.out.class,
                                        "Extends")
                         ELSE [ok |-> TRUE, graph |-> graph,
                               stack |-> stack])

InspectLoop(disk, ps, graph, stack) ==
    IF stack = <<>>
    THEN [ok |-> TRUE, graph |-> graph, ps |-> ps]
    ELSE InspectSuper(disk, graph, Take(stack, Len(stack) - 1),
                      stack[Len(stack)],
                      FindSuper(disk, ps, stack[Len(stack)]))

\* inspect(class, parser).
Inspect(disk, ps, class) ==
    InspectLoop(disk, ps, GraphNew(class), <<class>>)

\* parser.find(root), then inspect(&class, &parser) when it was found.
InspectFound(disk, found) ==
    IF found.out.ok
    THEN Inspect(disk, found.ps, found.out.class)
    ELSE [ok |-> FALSE, err |-> found.out.err, ps |-> found.ps]

\* The classes of the hierarchies checked; a class names only classes
\* before it in this order, or java/lang/Object, which is not on the
\* classpath.
GrOrder == <<ShapeName, QuadName, RectangleName, SquareName>>

GrNames == Range(GrOrder)

\* The interface declarations a hierarchy can make: class k implements j.
GrIfacePairs ==
    {p \in (DOMAIN GrOrder) \X (DOMAIN GrOrder) : p[2] < p[1]}

\* The interfaces of class k, in the order declared.
GrInterfaces(decls, k) ==
    LET own == SelectSeq(decls, LAMBDA p : p[1] = k)
    IN  [i \in 1..Len(own) |-> GrOrder[own[i][2]]]

\* The directory of class files of a hierarchy: supers[k] is the number of
\* the superclass of class k, 0 for java/lang/Object.
GrTree(supers, decls) ==
    "tree" :>
        ClassDir([f \in {WithExtensionClass(n) : n \in GrNames} |->
                    LET k == CHOOSE k \in DOMAIN GrOrder :
                                 WithExtensionClass(GrOrder[k]) = f
                    IN  ClassBytes(GrOrder[k],
                                   IF supers[k] = 0 THEN ObjectName
                                   ELSE GrOrder[supers[k]],
                                   GrInterfaces(decls, k), "tree")])

GrDisks ==
    {GrTree(supers, decls) :
        supers \in {f \in [DOMAIN GrOrder -> 0..Len(GrOrder)] :
                        \A k \in DOMAIN GrOrder : f[k] < k},
        decls \in SeqsUpTo(GrIfacePairs, MaxIfaces)}

\* A parser over the one directory.
GrInit ==
    /\ grDisk \in GrDisks
    /\ grParser =
          Parser(<<"tree">>, <<>>, {}, [searches |-> 0, reads |-> 0,
                                        opens |-> 0])
    /\ grPc = "new"
    /\ grRoot = <<>>
    /\ grBuilt = NoResult
    /\ grQuery = <<>>
    /\ grOut = NoResult
    /\ OnlyGr

\* What an inspect of root that returned r leaves.
GrInspected(root, r) ==
    /\ grRoot' = root
    /\ grParser' = r.ps
    /\ grBuilt' = IF r.ok
                  THEN [ok |-> TRUE, graph |-> r.graph]
                  ELSE [ok |-> FALSE, err |-> r.err]
    /\ grPc' = IF r.ok THEN "built" ELSE "failed"

\* parser.find(root), then inspect(&class, &parser).
GrInspect ==
    /\ grPc = "new"
    /\ \E root \in GrNames :
          GrInspected(root,
                      InspectFound(grDisk,
                                   ParserFind(grDisk, grParser, root)))
    /\ UNCHANGED <<grDisk, grQuery, grOut, notGr>>

\* What a second inspect of the root that returned r leaves.
GrReinspected(r) ==
    /\ grParser' = r.ps
    /\ grBuilt' = IF r.ok
                  THEN [ok |-> TRUE, graph |-> r.graph]
                  ELSE [ok |-> FALSE, err |-> r.err]
    /\ grPc' = IF r.ok THEN "rebuilt" ELSE "failed"

\* parser.find(root) and inspect(&class, &parser) once more, with the
\* parser the first inspect left.
GrReinspect ==
    /\ grPc \in {"built", "queried"}
    /\ GrReinspected(InspectFound(grDisk,
                                  ParserFind(grDisk, grParser, grRoot)))
    /\ UNCHANGED <<grDisk, grRoot, grQuery, grOut, notGr>>

\* graph.inherits(fqn).
GrInherits ==
    /\ grPc \in {"built", "queried"}
    /\ \E fqn \in GrNames \cup {ObjectName} :
          /\ grQuery' = fqn
          /\ grOut' = Inherits(grBuilt.graph, fqn)
    /\ grPc' = "queried"
    /\ UNCHANGED <<grDisk, grParser, grRoot, grBuilt, notGr>>

GrNext == GrInspect \/ GrReinspect \/ GrInherits

SpecGr == GrInit /\ [][GrNext]_vars

\* The class file of a name in the directory.
GrClass(name) == grDisk["tree"].files[WithExtensionClass(name)].class

\* C9: when Square extends Rectangle and implements Shape, both on the
\* classpath and with no parent on it, inherits(Square) on the graph that
\* inspect built from Square is [(Rectangle, Extends), (Shape, Implements)]:
\* the superclass edge, inserted first, is reported first.
C9_InheritanceOrder ==
    (/\ grPc = "queried"
     /\ grRoot = SquareName
     /\ grQuery = SquareName
     /\ GrClass(SquareName).super_name = RectangleName
     /\ GrClass(SquareName).interfaces = <<ShapeName>>
     /\ GrClass(RectangleName).super_name = ObjectName
     /\ GrClass(RectangleName).interfaces = <<>>
     /\ GrClass(ShapeName).super_name = ObjectName
     /\ GrClass(ShapeName).interfaces = <<>>)
    => grOut = [ok |-> TRUE,
                list |-> <<[class |-> GrClass(RectangleName),
                            kind |-> "Extends"],
                           [class |-> GrClass(ShapeName),
                            kind |-> "Implements"]>>]

\* C24: inherits(fqn) is Ok when fqn is a node of the graph and the error
\* NoClassFound carrying fqn when it is not.
C24_InheritsNoClassFound ==
    grPc = "queried" =>
        IF \E i \in DOMAIN grBuilt.graph.nodes :
              grBuilt.graph.nodes[i] = grQuery
        THEN grOut.ok
        ELSE grOut = [ok |-> FALSE,
                      err |-> [kind |-> "NoClassFound", name |-> grQuery]]

\* The graph built from Shape was asked for Square, which it does not
\* hold, and then for its root.
C24_Witness ==
    /\ grPc = "queried"
    /\ grRoot = ShapeName
    /\ grQuery = SquareName
    /\ grOut = [ok |-> FALSE,
                err |-> [kind |-> "NoClassFound", name |-> SquareName]]

RECURSIVE GrReach(_, _, _)
GrReach(g, from, n) ==
    IF n = 0 THEN {}
    ELSE LET near == {g.nodes[g.edges[i].to] :
                        i \in {j \in 1..Len(g.edges) :
                                 g.nodes[g.edges[j].from] \in from}}
         IN  near \cup GrReach(g, near, n - 1)

\* C10: inherits(fqn) lists each ancestor reachable from fqn exactly once,
\* and nothing else, in every graph, diamonds included.
C10_EachAncestorOnce ==
    (grPc = "queried" /\ grOut.ok) =>
        LET g == grBuilt.graph
            names == [i \in 1..Len(grOut.list) |-> grOut.list[i].class.this]
        IN  /\ Range(names) = GrReach(g, {grQuery}, Len(g.nodes))
            /\ \A n \in Range(names) : Count(names, n) = 1

(***************************************************************************)
(* inspect, one statement that calls the parser or changes the graph at a  *)
(* time (crates/java_class_parser/src/inheritance.rs, lines 124-168).      *)
(***************************************************************************)

\* Hierarchies that need not be trees: three classes, each with any of them
\* or java/lang/Object as superclass, itself included, and with any of them
\* as interfaces, or with interfaces of which one, the fourth class, has no
\* file on the classpath.
CyOrder == <<ShapeName, QuadName, RectangleName>>

CyIfacePairs == (DOMAIN CyOrder) \X (DOMAIN CyOrder)

CyMissingPairs == {<<1, 2>>, <<1, 4>>, <<2, 4>>}

CyInterfaces(decls, k) ==
    [i \in 1..Len(SelectSeq(decls, LAMBDA p : p[1] = k)) |->
        GrOrder[SelectSeq(decls, LAMBDA p : p[1] = k)[i][2]]]

CyTree(supers, decls) ==
    "tree" :>
        ClassDir([f \in {WithExtensionClass(n) : n \in Range(CyOrder)} |->
                    LET k == CHOOSE k \in DOMAIN CyOrder :
                                 WithExtensionClass(CyOrder[k]) = f
                    IN  ClassBytes(CyOrder[k],
                                   IF supers[k] = 0 THEN ObjectName
                                   ELSE CyOrder[supers[k]],
                                   CyInterfaces(decls, k), "tree")])

CyDisks ==
    {CyTree(supers, decls) :
        supers \in [DOMAIN CyOrder -> 0..Len(CyOrder)],
        decls \in SeqsUpTo(CyIfacePairs, MaxIfaces)
                    \cup SeqsUpTo(CyMissingPairs, MaxIfaces)}

InInit ==
    /\ inDisk \in GrDisks \cup CyDisks
    /\ inParser =
          Parser(<<"tree">>, <<>>, {}, [searches |-> 0, reads |-> 0,
                                        opens |-> 0])
    /\ inPc = "new"
    /\ inRoot = <<>>
    /\ inGraph = <<>>
    /\ inStack = <<>>
    /\ inClass = <<>>
    /\ inTodo = <<>>
    /\ inOut = NoResult
    /\ OnlyIn

\* inspect ends with the error err.
InFail(err) ==
    /\ inPc' = "failed"
    /\ inOut' = [ok |-> FALSE, err |-> err]

InStarted(root, found) ==
    /\ found.out.ok
    /\ inRoot' = root
    /\ inParser' = found.ps
    /\ inGraph' = GraphNew(found.out.class)
    /\ inStack' = <<found.out.class>>

\* parser.find(root), then the first statements of inspect: the graph of
\* the class alone, and the class on the stack.
InStart ==
    /\ inPc = "new"
    /\ \E root \in GrNames :
          InStarted(root, ParserFind(inDisk, inParser, root))
    /\ inPc' = "loop"
    /\ UNCHANGED <<inDisk, inClass, inTodo, inOut, notIn>>

\* A handling of find_super's result that takes every error for a class
\* with no superclass on the classpath.
InPoppedLenient(sup) ==
    /\ inParser' = sup.ps
    /\ IF sup.out.ok
       THEN inPc' = "super_class" /\ inTodo' = <<sup.out.class>>
                                  /\ UNCHANGED inOut
       ELSE inPc' = "interfaces" /\ UNCHANGED <<inTodo, inOut>>

InPopped(sup) ==
    /\ inParser' = sup.ps
    /\ IF sup.out.ok
       THEN inPc' = "super_class" /\ inTodo' = <<sup.out.class>>
                                  /\ UNCHANGED inOut
       ELSE IF sup.out.err.kind = "NoClassFound"
       THEN inPc' = "interfaces" /\ UNCHANGED <<inTodo, inOut>>
       ELSE InFail(sup.out.err) /\ UNCHANGED inTodo

\* stack.pop() and parser.find_super(&class).
InPop ==
    /\ inPc = "loop"
    /\ inStack # <<>>
    /\ inClass' = inStack[Len(inStack)]
    /\ inStack' = Take(inStack, Len(inStack) - 1)
    /\ InPopped(FindSuper(inDisk, inParser, inStack[Len(inStack)]))
    /\ UNCHANGED <<inDisk, inRoot, inGraph, notIn>>

\* graph.add_class(parent) and the push of a parent that is new.
InAddClass ==
    /\ inPc \in {"super_class", "iface_class"}
    /\ inGraph' = AddClass(inGraph, Head(inTodo)).graph
    /\ inStack' = IF AddClass(inGraph, Head(inTodo)).added
                  THEN Append(inStack, Head(inTodo))
                  ELSE inStack
    /\ inPc' = IF inPc = "super_class" THEN "super_edge" ELSE "iface_edge"
    /\ UNCHANGED <<inDisk, inParser, inRoot, inClass, inTodo, inOut, notIn>>

InAddedInheritance(e) ==
    IF e.added
    THEN /\ inGraph' = e.graph
         /\ inTodo' = Tail(inTodo)
         /\ inPc' = IF inPc = "super_edge" THEN "interfaces"
                    ELSE IF Tail(inTodo) = <<>> THEN "loop"
                    ELSE "iface_class"
         /\ UNCHANGED inOut
    ELSE /\ InFail(AddingInheritanceFailed(inClass))
         /\ UNCHANGED <<inGraph, inTodo>>

\* graph.add_inheritance(class.this(), &parent_name, kind).
InAddInheritance ==
    /\ inPc \in {"super_edge", "iface_edge"}
    /\ InAddedInheritance(
          AddInheritance(inGraph, inClass.this, Head(inTodo).this,
                         IF inPc = "super_edge" THEN "Extends"
                         ELSE "Implements"))
    /\ UNCHANGED <<inDisk, inParser, inRoot, inStack, inClass, notIn>>

InFoundInterfaces(found) ==
    /\ inParser' = found.ps
    /\ IF found.ok
       THEN /\ inTodo' = found.classes
            /\ inPc' = IF found.classes = <<>> THEN "loop" ELSE "iface_class"
            /\ UNCHANGED inOut
       ELSE InFail(found.err) /\ UNCHANGED inTodo

\* parser.find_interfaces(&class)?.
InFindInterfaces ==
    /\ inPc = "interfaces"
    /\ InFoundInterfaces(FindInterfaces(inDisk, inParser, inClass))
    /\ UNCHANGED <<inDisk, inRoot, inGraph, inStack, inClass, notIn>>

\* Ok(graph), the stack being empty.
InReturn ==
    /\ inPc = "loop"
    /\ inStack = <<>>
    /\ inPc' = "built"
    /\ inOut' = [ok |-> TRUE, graph |-> inGraph]
    /\ UNCHANGED <<inDisk, inParser, inRoot, inGraph, inStack, inClass,
                   inTodo, notIn>>

\* graph.inherits(root) on the graph returned.
InInherits ==
    /\ inPc = "built"
    /\ inPc' = "queried"
    /\ inOut' = Inherits(inGraph, inRoot)
    /\ UNCHANGED <<inDisk, inParser, inRoot, inGraph, inStack, inClass,
                   inTodo, notIn>>

InNext ==
    \/ InStart
    \/ InPop
    \/ InAddClass
    \/ InAddInheritance
    \/ InFindInterfaces
    \/ InReturn
    \/ InInherits

SpecIn == InInit /\ [][InNext]_vars

\* The hierarchies on which the run of inspect is followed to its end: any
\* superclasses, and at most one interface declaration.
InLiveDisks ==
    {CyTree(supers, decls) :
        supers \in [DOMAIN CyOrder -> 0..Len(CyOrder)],
        decls \in {<<>>, <<<<1, 2>>>>, <<<<2, 2>>>>}}

InLiveInit == InInit /\ inDisk \in InLiveDisks

\* inspect is one sequential loop, with nothing to suspend it: a call that
\* can take a step takes one.
SpecInLive == InLiveInit /\ [][InNext]_vars /\ WF_vars(InNext)

\* Whether a name has a class file in the directory inspected.
InResolves(name) == WithExtensionClass(name) \in DOMAIN inDisk["tree"].files

\* Whether the class inspected has no superclass and no interface on the
\* classpath.
InNoAncestors ==
    LET class == inDisk["tree"].files[WithExtensionClass(inRoot)].class
    IN  /\ ~InResolves(class.super_name)
        /\ \A i \in DOMAIN class.interfaces : ~InResolves(class.interfaces[i])

\* C11: in every state of inspect and in the graph it returns, no two edges
\* join the same ordered pair of nodes with the same kind, and the root is a
\* node; the graph of a class with no ancestor on the classpath is the root
\* alone, and inherits(root) on it is empty.
C11_GraphInvariant ==
    inPc \notin {"idle", "new"} =>
        /\ \A i, j \in DOMAIN inGraph.edges :
              i # j => inGraph.edges[i] # inGraph.edges[j]
        /\ inGraph.root = inRoot
        /\ inRoot \in DOMAIN inGraph.mapping
        /\ inGraph.nodes[inGraph.mapping[inRoot].index] = inRoot
        /\ (inPc \in {"built", "queried"} /\ InNoAncestors) =>
              inGraph.nodes = <<inRoot>> /\ inGraph.edges = <<>>
        /\ (inPc = "queried" /\ InNoAncestors) =>
              inOut = [ok |-> TRUE, list |-> <<>>]

\* In the middle of inspect: two edges added, a third parent about to be.
C11_Witness ==
    /\ inPc = "iface_class"
    /\ Len(inGraph.edges) = 2
    /\ Len(inGraph.nodes) >= 2
    /\ inTodo # <<>>

\* inspect has returned.
InDone == inPc \in {"built", "failed", "queried"}

\* A step that pushes a class pushes one that the step adds to the graph.
InPushesNew ==
    Len(inStack') > Len(inStack) /\ inPc # "new" =>
        /\ inStack'[Len(inStack')].this \notin DOMAIN inGraph.mapping
        /\ inStack'[Len(inStack')].this \in DOMAIN inGraph'.mapping

\* C26: inspect returns for every hierarchy, cycles and classes that name
\* themselves included, and a class is pushed on the stack only in the
\* step that adds it to the graph.
C26_Terminates == <>InDone /\ [][InPushesNew]_vars

\* inspect returned a graph in which two classes inherit from each other.
C26_Witness ==
    /\ inPc = "built"
    /\ \E i, j \in DOMAIN inGraph.edges :
          /\ inGraph.edges[i].from # inGraph.edges[i].to
          /\ inGraph.edges[i].from = inGraph.edges[j].to
          /\ inGraph.edges[i].to = inGraph.edges[j].from

\* The class that the file of name declares.
InDeclared(name) == inDisk["tree"].files[WithExtensionClass(name)].class

\* The interfaces of the class name that are on the classpath.
InInterfaces(name) ==
    {i \in Range(InDeclared(name).interfaces) : InResolves(i)}

\* The superclass and interfaces of the class name that are on the classpath.
InParents(name) ==
    {s \in {InDeclared(name).super_name} : InResolves(s)}
        \cup InInterfaces(name)

\* The classes within n inheritance steps of the classes of set.
RECURSIVE InReach(_, _)
InReach(set, n) ==
    IF n = 0 THEN set
    ELSE InReach(set \cup UNION {InParents(c) : c \in set}, n - 1)

\* Whether the graph has an edge of the kind ty from class c to class s.
InEdge(c, s, ty) ==
    /\ s \in DOMAIN inGraph.mapping
    /\ \E i \in DOMAIN inGraph.edges :
          inGraph.edges[i] = [from |-> inGraph.mapping[c].index,
                              to |-> inGraph.mapping[s].index,
                              kind |-> ty]

\* C27: the graph inspect returns holds the root and the classes reachable
\* from it over superclasses and interfaces found on the classpath, and no
\* other; a class of the graph has an Extends edge to exactly its superclass
\* found on the classpath and an Implements edge to exactly its interfaces
\* found there.
C27_GraphContent ==
    inPc \in {"built", "queried"} =>
        /\ Range(inGraph.nodes) = InReach({inRoot}, Cardinality(GrNames))
        /\ DOMAIN inGraph.mapping = Range(inGraph.nodes)
        /\ \A c \in Range(inGraph.nodes) :
              /\ inGraph.nodes[inGraph.mapping[c].index] = c
              /\ \A s \in GrNames \cup {ObjectName} :
                    /\ InEdge(c, s, "Extends") <=>
                          (s = InDeclared(c).super_name /\ InResolves(s))
                    /\ InEdge(c, s, "Implements") <=> s \in InInterfaces(c)

\* inspect returned a graph of three classes, with an Extends and an
\* Implements edge, for a class one of whose interfaces is not on the
\* classpath.
C27_Witness ==
    /\ inPc = "built"
    /\ Len(inGraph.nodes) = 3
    /\ \E i, j \in DOMAIN inGraph.edges :
          inGraph.edges[i].kind = "Extends" /\ inGraph.edges[j].kind = "Implements"
    /\ \E i \in DOMAIN InDeclared(inRoot).interfaces :
          ~InResolves(InDeclared(inRoot).interfaces[i])

\* The superclass and the interfaces of the class name, in the order
\* inspect adds them, those not on the classpath left out.
InParentList(name) ==
    SelectSeq(<<InDeclared(name).super_name>> \o InDeclared(name).interfaces,
              InResolves)

\* Whether the class name has one parent twice: as superclass and as
\* interface, or as two of its interfaces.
InDuplicate(name) ==
    \E i, j \in DOMAIN InParentList(name) :
        i # j /\ InParentList(name)[i] = InParentList(name)[j]

\* C29: with every class file stored under the name it declares, an inspect
\* that fails fails with AddingInheritanceFailed for the class it is
\* expanding, and that class has one parent twice; an inspect that returns
\* a graph has expanded no class with one parent twice; and an edge is
\* rejected only for a parent the class being expanded has named before.
C29_DuplicateParent ==
    /\ inPc = "failed" =>
          /\ inOut = [ok |-> FALSE, err |-> AddingInheritanceFailed(inClass)]
          /\ InDuplicate(inClass.this)
    /\ inPc \in {"built", "queried"} =>
          \A c \in Range(inGraph.nodes) : ~InDuplicate(c)
    /\ (inPc \in {"super_edge", "iface_edge"}
        /\ ~InDuplicate(inClass.this)) =>
          AddInheritance(inGraph, inClass.this, Head(inTodo).this,
                         IF inPc = "super_edge" THEN "Extends"
                         ELSE "Implements").added

\* inspect failed on a class other than the root that names its superclass
\* among its interfaces as well.
C29_Witness ==
    /\ inPc = "failed"
    /\ inClass.this # inRoot
    /\ InResolves(inClass.super_name)
    /\ inClass.super_name \in Range(inClass.interfaces)

(***************************************************************************)
(* inspect over classpaths on which a lookup can fail otherwise than by    *)
(* finding nothing: a class file that does not decode, and behind the      *)
(* directory an entry that is no archive or is of no supported kind.       *)
(***************************************************************************)

\* The hierarchy of supers and decls, the files of the classes numbered in
\* corrupt holding bytes that are no class file.
IeTree(supers, decls, corrupt) ==
    ("tree" :>
        [CyTree(supers, decls)["tree"] EXCEPT
            !.files = [f \in DOMAIN @ |->
                          IF f \in {WithExtensionClass(CyOrder[k]) :
                                       k \in corrupt}
                          THEN NoClass ELSE @[f]]])
    @@ ("notes.txt" :> PlainFile("txt"))
    @@ ("bad.jar" :> PlainFile("jar"))

IeDisks ==
    {IeTree(supers, decls, corrupt) :
        supers \in [DOMAIN CyOrder -> 0..Len(CyOrder)],
        decls \in {<<>>, <<<<1, 2>>>>, <<<<1, 3>>>>, <<<<1, 4>>, <<1, 2>>>>},
        corrupt \in SUBSET {2, 3}}

\* The classpaths: the directory alone, or in front of a second entry.
IeOrders == {<<"tree">>, <<"tree", "notes.txt">>, <<"tree", "bad.jar">>}

IeInit ==
    /\ inDisk \in IeDisks
    /\ inParser \in {Parser(order, <<>>, {}, [searches |-> 0, reads |-> 0,
                                              opens |-> 0]) :
                        order \in IeOrders}
    /\ inPc = "new"
    /\ inRoot = <<>>
    /\ inGraph = <<>>
    /\ inStack = <<>>
    /\ inClass = <<>>
    /\ inTodo = <<>>
    /\ inOut = NoResult
    /\ OnlyIn

SpecIe == IeInit /\ [][InNext]_vars

\* What a lookup of name comes to on the classpath: the class file of the
\* directory if it has one, else what the entry behind it answers, else
\* not found.
IeError(name) ==
    IF InResolves(name)
    THEN IF inDisk["tree"].files[WithExtensionClass(name)].valid
         THEN [kind |-> "Ok"]
         ELSE [kind |-> "Decode"]
    ELSE IF Len(inParser.order) = 1
    THEN [kind |-> "NoClassFound", name |-> name]
    ELSE IF inParser.order[2] = "bad.jar"
    THEN [kind |-> "Zip"]
    ELSE [kind |-> "UnsupportedEntry", path |-> inParser.order[2]]

\* The declared interfaces of class whose lookup fails otherwise than by
\* finding nothing.
IeBad(class) ==
    {i \in DOMAIN class.interfaces :
        IeError(class.interfaces[i]).kind \notin {"Ok", "NoClassFound"}}

\* C28: when the lookup of a popped class's superclass finds nothing,
\* inspect goes on to the interfaces with the graph as it was; when it fails
\* in another way inspect ends with that error; when the lookup of an
\* interface fails in another way inspect ends with the error of the first
\* such interface, and otherwise find_interfaces does not end it; an
\* inspect that ended with an error returned no graph.
C28_InspectErrors ==
    [][/\ (inPc = "loop" /\ inStack # <<>>) =>
             LET e == IeError(inStack[Len(inStack)].super_name)
             IN  /\ e.kind = "NoClassFound" =>
                       inPc' = "interfaces" /\ inGraph' = inGraph
                                            /\ inOut' = inOut
                 /\ e.kind \notin {"Ok", "NoClassFound"} =>
                       inPc' = "failed" /\ inOut' = [ok |-> FALSE, err |-> e]
       /\ inPc = "interfaces" =>
             IF IeBad(inClass) # {}
             THEN /\ inPc' = "failed"
                  /\ inOut' =
                        [ok |-> FALSE,
                         err |-> IeError(
                                   inClass.interfaces[Least(IeBad(inClass))])]
             ELSE inPc' # "failed"
       /\ inPc' = "failed" => ~inOut'.ok /\ inGraph' = inGraph
       /\ inPc = "failed" => inPc' = "failed"
      ]_vars

\* inspect ended with the decode error of an interface of a class whose
\* superclass was not found.
C28_Witness ==
    /\ inPc = "failed"
    /\ inOut = [ok |-> FALSE, err |-> [kind |-> "Decode"]]
    /\ inParser.order = <<"tree">>
    /\ ~InResolves(inClass.super_name)
    /\ Len(inGraph.nodes) >= 2

(***************************************************************************)
(* find, find_super and find_interfaces on parsers over every kind of      *)
(* classpath entry (crates/java_class_parser/src/lib.rs, lines 94-122).    *)
(***************************************************************************)

\* Most interfaces the class given to find_interfaces declares.
MaxDeclared == 2

\* The entries and the names of these lookups: those with classes outside
\* packages.
RlLocations == PsLocations \ {"classes.jar"}

RlNames == {AName, BName, CName}

\* The classpaths of these parsers, as the class_path set yields them.
RlOrders ==
    {o \in SeqsUpTo(RlLocations, MaxPsLen) :
        \A i, j \in DOMAIN o : i # j => o[i] # o[j]}

\* The classes given to find_super and find_interfaces.
RlClasses ==
    {ClassBytes(SquareName, super, interfaces, "given").class :
        super \in RlNames \cup {ObjectName},
        interfaces \in SeqsUpTo(RlNames, MaxDeclared)}

RlInit ==
    /\ \E order \in RlOrders :
          rlParser = Parser(order, <<>>, {}, [searches |-> 0, reads |-> 0,
                                              opens |-> 0])
    /\ rlClass \in RlClasses
    /\ rlPc = "new"
    /\ rlOp = "none"
    /\ rlName = <<>>
    /\ rlOut = NoResult
    /\ OnlyRl

RlFound(r) ==
    /\ rlOut' = r.out
    /\ rlParser' = r.ps

\* parser.find(name).
RlFind ==
    /\ rlPc = "new"
    /\ \E name \in RlNames :
          /\ rlName' = name
          /\ RlFound(ParserFind(PsDisk, rlParser, name))
    /\ rlPc' = "called"
    /\ rlOp' = "find"
    /\ UNCHANGED <<rlClass, notRl>>

\* parser.find_super(&class).
RlFindSuper ==
    /\ rlPc = "new"
    /\ rlName' = rlClass.super_name
    /\ RlFound(FindSuper(PsDisk, rlParser, rlClass))
    /\ rlPc' = "called"
    /\ rlOp' = "find_super"
    /\ UNCHANGED <<rlClass, notRl>>

RlFoundInterfaces(found) ==
    /\ rlOut' = IF found.ok
                THEN [ok |-> TRUE, classes |-> found.classes]
                ELSE [ok |-> FALSE, err |-> found.err]
    /\ rlParser' = found.ps

\* parser.find_interfaces(&class).
RlFindInterfaces ==
    /\ rlPc = "new"
    /\ RlFoundInterfaces(FindInterfaces(PsDisk, rlParser, rlClass))
    /\ rlPc' = "called"
    /\ rlOp' = "find_interfaces"
    /\ UNCHANGED <<rlClass, rlName, notRl>>

RlNext == RlFind \/ RlFindSuper \/ RlFindInterfaces

SpecRl == RlInit /\ [][RlNext]_vars

\* What a search of the classpath for a name gives, nothing being cached.
RlLookup(name) == FindClass(PsDisk, rlParser.order, {}, name)

\* The lookups of the declared interfaces, and those that fail with an
\* error other than not found.
RlLookups == [i \in DOMAIN rlClass.interfaces |->
                 RlLookup(rlClass.interfaces[i])]

RlBroken ==
    {i \in DOMAIN RlLookups :
        RlLookups[i].st = "err" /\ RlLookups[i].err.kind # "NoClassFound"}

\* The classes of the lookups that succeed among the first n, in order.
RECURSIVE RlResolved(_)
RlResolved(n) ==
    IF n = 0 THEN <<>>
    ELSE IF RlLookups[n].st = "some"
    THEN Append(RlResolved(n - 1), RlLookups[n].class)
    ELSE RlResolved(n - 1)

\* C12: find_interfaces leaves out the interfaces that are not found, keeps
\* the others in declared order, and returns the error of the first lookup
\* that fails otherwise, looking up nothing after it.
C12_FindInterfaces ==
    (rlPc = "called" /\ rlOp = "find_interfaces") =>
        IF RlBroken = {}
        THEN rlOut = [ok |-> TRUE,
                      classes |-> RlResolved(Len(rlClass.interfaces))]
        ELSE /\ rlOut = [ok |-> FALSE, err |-> RlLookups[Least(RlBroken)].err]
             /\ rlParser.io.searches =
                   Cardinality({i \in 1..Least(RlBroken) :
                       \A j \in 1..(i - 1) :
                          rlClass.interfaces[j] = rlClass.interfaces[i]
                             => RlLookups[j].st # "some"})

\* Interfaces [C, A] over a directory holding A: the list is A alone.
C12_Witness ==
    /\ rlPc = "called"
    /\ rlOp = "find_interfaces"
    /\ rlParser.order = <<"classes">>
    /\ rlClass.interfaces = <<CName, AName>>
    /\ rlOut.ok
    /\ Len(rlOut.classes) = 1
    /\ rlOut.classes[1].this = AName

\* Whether the search of an entry for a name ends without error.
RlSound(l) ==
    \/ PsDisk[l].fs = "dir"
    \/ PsDisk[l].fs = "file" /\ PsDisk[l].ext = "jar" /\ PsDisk[l].zip
    \/ PsDisk[l].fs = "file" /\ PsDisk[l].ext = "class"
          /\ PsDisk[l].self.valid

MaxAttrLen == 3

\* <Utf8 as AsRef<str>>::as_ref: from_utf8(..).expect("invalid utf8").
Utf8AsRef(bytes) ==
    IF \E i \in DOMAIN bytes : bytes[i] = "0xFF"
    THEN PPanic
    ELSE [st |-> "ok", val |-> Some(bytes)]

\* JavaClass::get_string: the text at an index, following String entries;
\* e is the result of ConstantPool::get for the index.
RECURSIVE GetString(_, _, _)
GotString(build, p, e) ==
    IF e.st # "ok" THEN e
    ELSE IF ~e.val.some THEN [st |-> "ok", val |-> None]
    ELSE IF e.val.val.tag = "String"
    THEN GetString(build, p, e.val.val.string_index)
    ELSE IF e.val.val.tag = "Utf8"
    THEN Utf8AsRef(e.val.val.bytes)
    ELSE [st |-> "ok", val |-> None]

GetString(build, p, index) ==
    GotString(build, p, ConstantPoolGet(build, p, index))

\* byteorder::BigEndian::read_u16: panics on fewer than two bytes.
ReadU16(bytes) ==
    IF Len(bytes) < 2 THEN PPanic
    ELSE [st |-> "ok", val |-> bytes[1] * 256 + bytes[2]]

\* What Attribute::new returns.
AttrOk(name, kind) == [st |-> "ok", attribute_name |-> name, kind |-> kind]

ResolveAttributeError(name) == [st |-> "err", error |-> name]

\* The "SourceFile" arm, s being the result of get_string.
AttrSourceFile(name, s) ==
    IF s.st # "ok" THEN PPanic
    ELSE IF ~s.val.some THEN ResolveAttributeError(name)
    ELSE AttrOk(name, [tag |-> "SourceFile", path |-> s.val.val])

\* The "Signature" arm, s being the result of get_string.
AttrSignature(name, s) ==
    IF s.st # "ok" THEN PPanic
    ELSE IF ~s.val.some THEN ResolveAttributeError(name)
    ELSE IF ~SignatureNew(s.val.val).ok THEN ResolveAttributeError(name)
    ELSE AttrOk(name, [tag |-> "Signature",
                       signature |-> SignatureNew(s.val.val).val])

\* take(n) for a length read by be_u32 and kept as four bytes.
TakeU32(n, b) ==
    IF n[1] # 0 \/ n[2] * 65536 + n[3] * 256 + n[4] > Len(b)
    THEN PErr
    ELSE POk(Take(b, n[2] * 65536 + n[3] * 256 + n[4]),
             Drop(b, n[2] * 65536 + n[3] * 256 + n[4]))

\* count(parser, n) for the parsers of fixed-size items: n items of size
\* bytes each.
CountFixed(n, size, b) ==
    IF n * size > Len(b) THEN PErr
    ELSE POk([i \in 1..n |-> SubSeq(b, (i - 1) * size + 1, i * size)],
             Drop(b, n * size))

\* parse_attribute_info: name index, length, and length bytes.
ParsedAttributeInfo(name, length) ==
    IF name.st # "ok" \/ length.st # "ok" THEN PErr
    ELSE IF TakeU32(length.val, length.rest).st # "ok" THEN PErr
    ELSE POk([attribute_name_index |-> name.val,
              attribute_length |-> length.val,
              info |-> TakeU32(length.val, length.rest).val],
             TakeU32(length.val, length.rest).rest)

ParseAttributeInfo(b) ==
    ParsedAttributeInfo(BeU16(b),
                        IF BeU16(b).st = "ok" THEN BeU32(BeU16(b).rest)
                        ELSE PErr)

\* count(parse_attribute_info, n).
RECURSIVE ParseAttributeInfos(_, _)
ParsedAttributeInfos(n, r) ==
    IF r.st # "ok" THEN PErr
    ELSE IF ParseAttributeInfos(n - 1, r.rest).st # "ok" THEN PErr
    ELSE POk(<<r.val>> \o ParseAttributeInfos(n - 1, r.rest).val,
             ParseAttributeInfos(n - 1, r.rest).rest)

ParseAttributeInfos(n, b) ==
    IF n = 0 THEN POk(<<>>, b)
    ELSE ParsedAttributeInfos(n, ParseAttributeInfo(b))

\* parse_exception on the eight bytes of an entry: a catch_type index of 0
\* is no catch type, another one is looked up and taken when the entry at
\* it is a Utf8.
ParseException(build, p, e) ==
    [start_pc |-> e[1] * 256 + e[2],
     end_pc |-> e[3] * 256 + e[4],
     handler_pc |-> e[5] * 256 + e[6],
     catch_type |->
        IF e[7] * 256 + e[8] = 0 THEN None
        ELSE IF ~ConstantPoolGet(build, p, e[7] * 256 + e[8]).val.some
        THEN None
        ELSE IF ConstantPoolGet(build, p, e[7] * 256 + e[8]).val.val.tag
                # "Utf8"
        THEN None
        ELSE Some(ConstantPoolGet(build, p,
                                  e[7] * 256 + e[8]).val.val.bytes)]

\* parse_code_attr, field by field; each step gets the result of the
\* field before it.
CodeAttributes(build, p, max_stack, max_locals, code, table, n) ==
    IF n.st # "ok" THEN PErr
    ELSE IF ParseAttributeInfos(n.val, n.rest).st # "ok" THEN PErr
    ELSE POk([max_stack |-> max_stack,
              max_locals |-> max_locals,
              code |-> code,
              exception_table |->
                 [i \in DOMAIN table |-> ParseException(build, p, table[i])],
              attributes |-> ParseAttributeInfos(n.val, n.rest).val],
             ParseAttributeInfos(n.val, n.rest).rest)

CodeExceptions(build, p, max_stack, max_locals, code, table) ==
    IF table.st # "ok" THEN PErr
    ELSE CodeAttributes(build, p, max_stack, max_locals, code, table.val,
                        BeU16(table.rest))

CodeTable(build, p, max_stack, max_locals, code) ==
    IF code.st # "ok" THEN PErr
    ELSE IF BeU16(code.rest).st # "ok" THEN PErr
    ELSE CodeExceptions(build, p, max_stack, max_locals, code.val,
                        CountFixed(BeU16(code.rest).val, 8,
                                   BeU16(code.rest).rest))

CodeBytes(build, p, max_stack, max_locals, length) ==
    IF length.st # "ok" THEN PErr
    ELSE CodeTable(build, p, max_stack, max_locals,
                   TakeU32(length.val, length.rest))

CodeLocals(build, p, max_stack, max_locals) ==
    IF max_locals.st # "ok" THEN PErr
    ELSE CodeBytes(build, p, max_stack, max_locals.val,
                   BeU32(max_locals.rest))

ParseCodeAttr(build, p, info) ==
    IF BeU16(info).st # "ok" THEN PErr
    ELSE CodeLocals(build, p, BeU16(info).val, BeU16(BeU16(info).rest))

\* The "Code" arm: parse_code_attr(..).finish().unwrap().
AttrCode(name, code) ==
    IF code.st # "ok" THEN PPanic
    ELSE AttrOk(name, [tag |-> "Code", code |-> code.val])

\* The "LineNumberTable" arm: a count and that many pairs, unwrapped.
AttrLineNumberTable(name, n) ==
    IF n.st # "ok" THEN PPanic
    ELSE IF CountFixed(n.val, 4, n.rest).st # "ok" THEN PPanic
    ELSE AttrOk(name,
                [tag |-> "LineNumberTable",
                 line_number_table |->
                    [i \in 1..n.val |->
                        <<ReadU16(CountFixed(n.val, 4, n.rest).val[i]).val,
                          ReadU16(Drop(CountFixed(n.val, 4,
                                                  n.rest).val[i], 2)).val>>]])

\* An Attribute::new that fails on a name it does not know.
AttributeNewKnownOnly(build, p, attribute_name, bytes) ==
    IF attribute_name = "Deprecated"
    THEN AttrOk(attribute_name, [tag |-> "Deprecated"])
    ELSE ResolveAttributeError(attribute_name)

\* Attribute::new.
AttributeNew(build, p, attribute_name, bytes) ==
    CASE attribute_name = "SourceFile" ->
            IF ReadU16(bytes).st # "ok" THEN PPanic
            ELSE AttrSourceFile(attribute_name,
                                GetString(build, p, ReadU16(bytes).val))
      [] attribute_name = "Signature" ->
            IF ReadU16(bytes).st # "ok" THEN PPanic
            ELSE AttrSignature(attribute_name,
                               GetString(build, p, ReadU16(bytes).val))
      [] attribute_name = "Code" ->
            AttrCode(attribute_name, ParseCodeAttr(build, p, bytes))
      [] attribute_name = "LineNumberTable" ->
            AttrLineNumberTable(attribute_name, BeU16(bytes))
      [] attribute_name = "Deprecated" ->
            AttrOk(attribute_name, [tag |-> "Deprecated"])
      [] OTHER -> AttrOk(attribute_name, [tag |-> "Unknown", bytes |-> bytes])

\* The names Attribute::new knows, and the names it is called with.
AtKnown == {"SourceFile", "Signature", "Code", "LineNumberTable", "Deprecated"}

AtNames ==
    AtKnown \cup {"", "InnerClasses", "sourcefile", "RuntimeVisibleAnnotations"}

\* The constant pools of the classes holding the attribute.
AtPools ==
    {<<>>,
     <<[tag |-> "Utf8", bytes |-> <<"I">>], [tag |-> "Class", name_index |-> 1]>>,
     <<[tag |-> "Utf8", bytes |-> <<"L", "I">>],
       [tag |-> "Utf8", bytes |-> <<"0xFF">>]>>}

\* A Code payload: max_stack 1, max_locals 1, one byte of code, one
\* exception entry catching the type at index catch, no attributes.
AtCodePayload(catch) ==
    <<0, 1, 0, 1, 0, 0, 0, 1, 0, 0, 1, 0, 0, 0, 1, 0, 0, 0, catch, 0, 0>>

\* A LineNumberTable payload of one pair.
AtLinesPayload == <<0, 1, 0, 0, 0, 1>>

\* The payloads: every short one, and the two above.
AtPayloads ==
    SeqsUpTo(0..2, MaxAttrLen)
    \cup {AtCodePayload(c) : c \in 0..2} \cup {AtLinesPayload}

AtInit ==
    /\ atBuild \in Builds
    /\ atPool \in AtPools
    /\ atName \in AtNames
    /\ atBytes \in AtPayloads
    /\ atPc = "input"
    /\ atOut = [st |-> "none"]
    /\ OnlyAt

\* Attribute::new(class, attribute_name, bytes).
AtNew ==
    /\ atPc = "input"
    /\ atOut' = AttributeNew(atBuild, atPool, atName, atBytes)
    /\ atPc' = "made"
    /\ UNCHANGED <<atBuild, atPool, atName, atBytes, notAt>>

AtNext == AtNew

SpecAt == AtInit /\ [][AtNext]_vars

\* C14: Attribute::new with a name outside the five known ones and any
\* payload is Ok with kind Unknown holding the payload as given.
C14_UnknownAttribute ==
    (atPc = "made" /\ atName \notin AtKnown) =>
        atOut = [st |-> "ok", attribute_name |-> atName,
                 kind |-> [tag |-> "Unknown", bytes |-> atBytes]]

\* An InnerClasses attribute with an empty payload was made.
C14_Witness ==
    /\ atPc = "made"
    /\ atName = "InnerClasses"
    /\ atBytes = <<>>
    /\ atOut.st = "ok"
    /\ atOut.kind = [tag |-> "Unknown", bytes |-> <<>>]

\* The pool index in the first two bytes of the payload.
AtIndex == atBytes[1] * 256 + atBytes[2]

\* The index of the payload does not resolve to a string: it is 0, past
\* the pool, or names an entry that is neither a Utf8 nor a String.
AtUnresolved ==
    \/ AtIndex = 0
    \/ AtIndex > Len(atPool)
    \/ atPool[AtIndex].tag \notin {"Utf8", "String"}

\* The index names a Utf8 whose text is not a descriptor.
AtBadDescriptor ==
    /\ AtIndex \in DOMAIN atPool
    /\ atPool[AtIndex].tag = "Utf8"
    /\ \A i \in DOMAIN atPool[AtIndex].bytes :
          atPool[AtIndex].bytes[i] # "0xFF"
    /\ ~IsSignature(atPool[AtIndex].bytes)

\* C22: Attribute::new for a SourceFile or Signature attribute whose index
\* does not resolve to a string, or whose Signature text is no descriptor,
\* returns a ResolveAttributeError: no Unknown attribute and no panic.
C22_ResolveError ==
    (/\ atPc = "made"
     /\ atName \in {"SourceFile", "Signature"}
     /\ Len(atBytes) >= 2
     /\ AtUnresolved \/ (atName = "Signature" /\ AtBadDescriptor)) =>
        atOut = ResolveAttributeError(atName)

\* The catch_type index of the one exception-table entry of a payload made
\* by AtCodePayload: the last two of the entry's eight bytes.
AtCatchIndex == atBytes[18] * 256 + atBytes[19]

\* The name of the class the index refers to: the Utf8 text the Class entry
\* at the index names.
AtCatchClass ==
    atPool[atPool[AtCatchIndex].name_index].bytes

\* The index refers to a Class entry whose name is a Utf8 entry.
AtCatchResolves ==
    /\ AtCatchIndex \in DOMAIN atPool
    /\ atPool[AtCatchIndex].tag = "Class"
    /\ atPool[AtCatchIndex].name_index \in DOMAIN atPool
    /\ atPool[atPool[AtCatchIndex].name_index].tag = "Utf8"

\* C23: in a decoded Code attribute the exception-table entry has no catch
\* type exactly when its catch_type index is 0, and for an index that
\* refers to a Class entry its catch type is the name of that class.
C23_CatchType ==
    (/\ atPc = "made"
     /\ atName = "Code"
     /\ atOut.st = "ok"
     /\ Len(atOut.kind.code.exception_table) = 1
     /\ AtCatchIndex = 0 \/ AtCatchResolves) =>
        /\ ~atOut.kind.code.exception_table[1].catch_type.some
              <=> AtCatchIndex = 0
        /\ AtCatchResolves =>
              atOut.kind.code.exception_table[1].catch_type
                 = Some(AtCatchClass)

(***************************************************************************)
(* parse_class_file_bytes (crates/java_class_parser/src/raw_java_class.rs) *)
(* and the parsers of fields, methods and attributes                       *)
(* (src/constant_pool/parser.rs), field group by field group.              *)
(***************************************************************************)

\* The value of the two bytes of a be_u16.
U16Of(x) == x[1] * 256 + x[2]

\* parse_data_info: access_flags, name, descriptor, attributes_count and
\* that many attributes; h is the result of the four be_u16.
ParsedDataInfo(h, attrs) ==
    IF attrs.st # "ok" THEN PErr
    ELSE POk([access_flags |-> U16Of(h.val[1]),
              name_index |-> U16Of(h.val[2]),
              descriptor_index |-> U16Of(h.val[3]),
              attributes_count |-> U16Of(h.val[4]),
              attributes |-> attrs.val], attrs.rest)

DataInfoAttributes(h) ==
    IF h.st # "ok" THEN PErr
    ELSE ParsedDataInfo(h, ParseAttributeInfos(U16Of(h.val[4]), h.rest))

ParseDataInfo(b) == DataInfoAttributes(CountFixed(4, 2, b))

\* multi::fill(parse_field_info, ..) and multi::fill(parse_method_info, ..)
\* on a vector of n elements.
RECURSIVE FillDataInfos(_, _)
FilledDataInfos(n, r) ==
    IF r.st # "ok" THEN PErr
    ELSE IF FillDataInfos(n - 1, r.rest).st # "ok" THEN PErr
    ELSE POk(<<r.val>> \o FillDataInfos(n - 1, r.rest).val,
             FillDataInfos(n - 1, r.rest).rest)

FillDataInfos(n, b) ==
    IF n = 0 THEN POk(<<>>, b) ELSE FilledDataInfos(n, ParseDataInfo(b))

\* A be_u16 count and then fill with that many fields or methods.
CountedDataInfos(n) ==
    IF n.st # "ok" THEN PErr ELSE FillDataInfos(n.val, n.rest)

\* A be_u16 count and then fill with that many attributes.
CountedAttributeInfos(n) ==
    IF n.st # "ok" THEN PErr ELSE ParseAttributeInfos(n.val, n.rest)

\* access_flags, this_class, super_class, interfaces_count, and
\* count(be_u16, interfaces_count); h is the result of the four be_u16.
ParsedClassInfo(h, ifaces) ==
    IF ifaces.st # "ok" THEN PErr
    ELSE POk([access_flags |-> U16Of(h.val[1]),
              this_class |-> U16Of(h.val[2]),
              super_class |-> U16Of(h.val[3]),
              interfaces_count |-> U16Of(h.val[4]),
              interfaces |->
                 [i \in DOMAIN ifaces.val |-> U16Of(ifaces.val[i])]],
             ifaces.rest)

ClassInfoInterfaces(h) ==
    IF h.st # "ok" THEN PErr
    ELSE ParsedClassInfo(h, CountFixed(U16Of(h.val[4]), 2, h.rest))

ParseClassInfo(b) == ClassInfoInterfaces(CountFixed(4, 2, b))

\* nom::combinator::eof.
Eof(b) == IF b = <<>> THEN POk(<<>>, b) ELSE PErr

\* A u32 as the class-file format stores it.
U32Bytes(n) == <<0, 0>> \o U16Bytes(n)

\* A class-file structure as the format stores it.
EncodeAttribute(a) ==
    U16Bytes(a.attribute_name_index) \o a.attribute_length \o a.info

EncodeAttributes(as) ==
    ConcatAll([i \in DOMAIN as |-> EncodeAttribute(as[i])])

EncodeDataInfo(d) ==
    U16Bytes(d.access_flags) \o U16Bytes(d.name_index)
    \o U16Bytes(d.descriptor_index) \o U16Bytes(d.attributes_count)
    \o EncodeAttributes(d.attributes)

EncodeDataInfos(ds) ==
    ConcatAll([i \in DOMAIN ds |-> EncodeDataInfo(ds[i])])

EncodeClass(c) ==
    PoolBuffer(c.constant_pool_count, c.constant_pool)
    \o U16Bytes(c.access_flags) \o U16Bytes(c.this_class)
    \o U16Bytes(c.super_class) \o U16Bytes(c.interfaces_count)
    \o ConcatAll([i \in DOMAIN c.interfaces |-> U16Bytes(c.interfaces[i])])
    \o U16Bytes(c.fields_count) \o EncodeDataInfos(c.fields)
    \o U16Bytes(c.methods_count) \o EncodeDataInfos(c.methods)
    \o U16Bytes(c.attributes_count) \o EncodeAttributes(c.attributes)

\* The structures the buffers are written from.
CfAttribute(info) ==
    [attribute_name_index |-> 1, attribute_length |-> U32Bytes(Len(info)),
     info |-> info]

CfDataInfo(attrs) ==
    [access_flags |-> 1, name_index |-> 1, descriptor_index |-> 1,
     attributes_count |-> Len(attrs), attributes |-> attrs]

CfPools ==
    {<<>>,
     <<[tag |-> "Utf8", bytes |-> <<7>>]>>,
     <<[tag |-> "Class", name_index |-> 2], [tag |-> "Utf8", bytes |-> <<>>]>>,
     <<[tag |-> "String", string_index |-> 1]>>}

CfClasses ==
    {[constant_pool_count |-> n, constant_pool |-> p,
      access_flags |-> 33, this_class |-> 1, super_class |-> 0,
      interfaces_count |-> Len(is), interfaces |-> is,
      fields_count |-> Len(fs), fields |-> fs,
      methods_count |-> Len(ms), methods |-> ms,
      attributes_count |-> Len(as), attributes |-> as] :
        n \in 0..2, p \in CfPools,
        is \in {<<>>, <<2>>},
        fs \in {<<>>, <<CfDataInfo(<<CfAttribute(<<9>>)>>)>>},
        ms \in {<<>>, <<CfDataInfo(<<>>)>>},
        as \in {<<>>, <<CfAttribute(<<>>)>>,
                <<CfAttribute(<<>>), CfAttribute(<<9>>)>>}}

\* The bytes a buffer can have after the structure.
CfTrailing == {<<0>>, <<202, 254>>}

\* The buffers of a structure: the structure itself, each of its proper
\* prefixes, and the structure with bytes after it.
CfBuffers(c) ==
    {SubSeq(EncodeClass(c), 1, k) : k \in 0..Len(EncodeClass(c))}
    \cup {EncodeClass(c) \o t : t \in CfTrailing}

\* Nothing decoded yet.
CfNoRaw ==
    [constant_pool_count |-> 0, constant_pool |-> <<>>,
     access_flags |-> 0, this_class |-> 0, super_class |-> 0,
     interfaces_count |-> 0, interfaces |-> <<>>,
     fields_count |-> 0, fields |-> <<>>,
     methods_count |-> 0, methods |-> <<>>,
     attributes_count |-> 0, attributes |-> <<>>]

CfInit ==
    /\ cfBuild \in Builds
    /\ cfClass \in {c \in CfClasses :
                       c.constant_pool_count \in {0, Len(c.constant_pool) + 1}}
    /\ cfBytes \in CfBuffers(cfClass)
    /\ cfRest = cfBytes
    /\ cfRaw = CfNoRaw
    /\ cfPc = "head"
    /\ OnlyCf

\* Where a step that ended with status st goes.
CfAfter(st, next) ==
    CASE st = "ok" -> next
      [] st = "err" -> "failed"
      [] st = "panic" -> "panicked"

\* A step of parse_class_file_bytes with result r: on success the bytes
\* left and the fields decoded are kept, otherwise the function returns.
CfStep(r, next, raw) ==
    /\ cfPc' = CfAfter(r.st, next)
    /\ cfRest' = IF r.st = "ok" THEN r.rest ELSE cfRest
    /\ cfRaw' = IF r.st = "ok" THEN raw ELSE cfRaw
    /\ UNCHANGED <<cfBuild, cfClass, cfBytes, notCf>>

\* magic, major, minor, constant_pool_count and the constant pool.
CfHeadParsed(r) ==
    CfStep(r, "class",
           IF r.st = "ok"
           THEN [cfRaw EXCEPT
                    !.constant_pool_count = r.val.constant_pool_count,
                    !.constant_pool = r.val.constant_pool]
           ELSE cfRaw)

CfHead ==
    /\ cfPc = "head"
    /\ CfHeadParsed(ParseClassHead(cfBuild, cfRest))

\* access_flags, this_class, super_class and the interfaces.
CfClassInfoParsed(r) ==
    CfStep(r, "fields",
           IF r.st = "ok"
           THEN [cfRaw EXCEPT
                    !.access_flags = r.val.access_flags,
                    !.this_class = r.val.this_class,
                    !.super_class = r.val.super_class,
                    !.interfaces_count = r.val.interfaces_count,
                    !.interfaces = r.val.interfaces]
           ELSE cfRaw)

CfClassInfo ==
    /\ cfPc = "class"
    /\ CfClassInfoParsed(ParseClassInfo(cfRest))

\* fields_count and the fields.
CfFieldsParsed(r) ==
    CfStep(r, "methods",
           IF r.st = "ok"
           THEN [cfRaw EXCEPT !.fields_count = Len(r.val), !.fields = r.val]
           ELSE cfRaw)

CfFields ==
    /\ cfPc = "fields"
    /\ CfFieldsParsed(CountedDataInfos(BeU16(cfRest)))

\* methods_count and the methods.
CfMethodsParsed(r) ==
    CfStep(r, "attributes",
           IF r.st = "ok"
           THEN [cfRaw EXCEPT !.methods_count = Len(r.val), !.methods = r.val]
           ELSE cfRaw)

CfMethods ==
    /\ cfPc = "methods"
    /\ CfMethodsParsed(CountedDataInfos(BeU16(cfRest)))

\* attributes_count and the attributes.
CfAttributesParsed(r) ==
    CfStep(r, "eof",
           IF r.st = "ok"
           THEN [cfRaw EXCEPT !.attributes_count = Len(r.val),
                              !.attributes = r.val]
           ELSE cfRaw)

CfAttributes ==
    /\ cfPc = "attributes"
    /\ CfAttributesParsed(CountedAttributeInfos(BeU16(cfRest)))

\* eof, and Ok with the class.
CfEof ==
    /\ cfPc = "eof"
    /\ CfStep(Eof(cfRest), "parsed", cfRaw)

CfNext ==
    \/ CfHead
    \/ CfClassInfo
    \/ CfFields
    \/ CfMethods
    \/ CfAttributes
    \/ CfEof

SpecCf == CfInit /\ [][CfNext]_vars

\* parse_class_file_bytes has returned or panicked.
CfDone == cfPc \in {"parsed", "failed", "panicked"}

\* The buffer is the structure it was written from and more bytes.
CfHasTrailing ==
    /\ Len(cfBytes) > Len(EncodeClass(cfClass))
    /\ SubSeq(cfBytes, 1, Len(EncodeClass(cfClass))) = EncodeClass(cfClass)

\* The buffer ends inside the structure it was written from.
CfIsTruncated == Len(cfBytes) < Len(EncodeClass(cfClass))

\* The bytes not read yet are the end of the buffer.
CfInBuffer ==
    /\ Len(cfRest) <= Len(cfBytes)
    /\ cfRest = SubSeq(cfBytes, Len(cfBytes) - Len(cfRest) + 1, Len(cfBytes))

\* What C17 says of a decode that did not stop at a panic.
CfExactUnlessPanic ==
    /\ CfInBuffer
    /\ cfPc = "parsed" => EncodeClass(cfRaw) = cfBytes
    /\ (CfDone /\ CfHasTrailing) => cfPc \in {"failed", "panicked"}
    /\ (CfDone /\ CfIsTruncated) => cfPc \in {"failed", "panicked"}

\* C17: parse_class_file_bytes succeeds only on a buffer that is one whole
\* class-file structure; a buffer with bytes after the structure and a
\* buffer that ends inside it give an error; the bytes read are always
\* inside the buffer.
C17_ExactStructure ==
    /\ CfInBuffer
    /\ cfPc = "parsed" => EncodeClass(cfRaw) = cfBytes
    /\ (CfDone /\ CfHasTrailing) => cfPc = "failed"
    /\ (CfDone /\ CfIsTruncated) => cfPc = "failed"

(***************************************************************************)
(* JavaClass::this and JavaClass::super_name (src/structures/class.rs).    *)
(***************************************************************************)

\* Largest this_class and super_class index of the decoded classes.
MaxNameIndex == 3

\* JavaClass::get_class_info: the entry at the index when it is a Class; e
\* is the result of ConstantPool::get.
GotClassInfo(e) ==
    IF e.st # "ok" THEN e
    ELSE IF e.val.some /\ e.val.val.tag = "Class" THEN e
    ELSE [st |-> "ok", val |-> None]

GetClassInfo(build, p, index) == GotClassInfo(ConstantPoolGet(build, p, index))

\* get_class_info(index).and_then(|Class { name_index }| get_string(..)).
ClassInfoName(build, p, c) ==
    IF c.st # "ok" THEN c
    ELSE IF ~c.val.some THEN c
    ELSE GetString(build, p, c.val.val.name_index)

\* .map(FullyQualifiedName::new).unwrap_or_else(|| panic!(..)).
NameOrPanic(s) ==
    IF s.st # "ok" THEN PPanic
    ELSE IF ~s.val.some THEN PPanic
    ELSE [st |-> "ok", name |-> s.val.val]

\* JavaClass::this.
This(build, p, this_class) ==
    NameOrPanic(ClassInfoName(build, p, GetClassInfo(build, p, this_class)))

\* JavaClass::super_name.
SuperName(build, p, super_class) ==
    NameOrPanic(ClassInfoName(build, p, GetClassInfo(build, p, super_class)))

\* The constant pools of the decoded classes.
NmPools ==
    {<<>>,
     <<[tag |-> "Utf8", bytes |-> <<"A">>]>>,
     <<[tag |-> "Class", name_index |-> 2],
       [tag |-> "Utf8", bytes |-> <<"A">>],
       [tag |-> "Class", name_index |-> 3]>>,
     <<[tag |-> "Class", name_index |-> 2],
       [tag |-> "Utf8", bytes |-> <<"0xFF">>]>>,
     <<[tag |-> "Class", name_index |-> 0],
       [tag |-> "NameAndType", name_index |-> 1, descriptor_index |-> 1]>>}

NmInit ==
    /\ nmBuild \in Builds
    /\ nmPool \in NmPools
    /\ nmThis \in 0..MaxNameIndex
    /\ nmSuper \in 0..MaxNameIndex
    /\ nmPc = "decoded"
    /\ nmOut = [st |-> "none"]
    /\ OnlyNm

\* class.this().
NmThisName ==
    /\ nmPc = "decoded"
    /\ nmOut' = This(nmBuild, nmPool, nmThis)
    /\ nmPc' = "this"
    /\ UNCHANGED <<nmBuild, nmPool, nmThis, nmSuper, notNm>>

\* class.super_name(), as find_super calls it.
NmSuperName ==
    /\ nmPc = "decoded"
    /\ nmOut' = SuperName(nmBuild, nmPool, nmSuper)
    /\ nmPc' = "super_name"
    /\ UNCHANGED <<nmBuild, nmPool, nmThis, nmSuper, notNm>>

NmNext == NmThisName \/ NmSuperName

SpecNm == NmInit /\ [][NmNext]_vars

\* C20: this() and super_name() end in a name or in an error value,
\* whatever the indices resolve to: they never panic.
C20_NamesNeverCrash == nmOut.st # "panic"

(***************************************************************************)
(* JavaClass::create_attribute and JavaClass::attributes                   *)
(* (src/structures/class.rs).                                              *)
(***************************************************************************)

\* Most class-level attribute records of a class.
MaxAttrs == 2

\* The &str of a Utf8 entry holding an attribute name: the names are held
\* as one token, any other text is no known name.
TextOf(bytes) == IF Len(bytes) = 1 THEN bytes[1] ELSE ""

\* JavaClass::create_attribute, s being the result of get_string on the
\* name index.
CreatedAttribute(build, p, info, s) ==
    IF s.st # "ok" THEN PPanic
    ELSE IF ~s.val.some THEN ResolveAttributeError("<unknown>")
    ELSE AttributeNew(build, p, TextOf(s.val.val), info)

CreateAttribute(build, p, name_index, info) ==
    CreatedAttribute(build, p, info, GetString(build, p, name_index))

\* JavaClass::attributes: the loop over the raw records from record i on,
\* with the output so far.  output.extend(result) pushes the attribute of
\* an Ok and pushes nothing for an Err.
RECURSIVE AttributesFrom(_, _, _, _, _)
AttributesExtended(build, p, raws, i, output, a) ==
    IF a.st = "panic" THEN PPanic
    ELSE AttributesFrom(build, p, raws, i + 1,
                        IF a.st = "ok" THEN Append(output, a) ELSE output)

AttributesFrom(build, p, raws, i, output) ==
    IF i > Len(raws) THEN [st |-> "ok", list |-> output]
    ELSE AttributesExtended(build, p, raws, i, output,
                            CreateAttribute(build, p,
                                            raws[i].attribute_name_index,
                                            raws[i].info))

Attributes(build, p, raws) == AttributesFrom(build, p, raws, 1, <<>>)

\* The constant pool of the class whose attributes are listed.
AlPool ==
    <<[tag |-> "Utf8", bytes |-> <<"SourceFile">>],
      [tag |-> "Utf8", bytes |-> <<"Deprecated">>],
      [tag |-> "Utf8", bytes |-> <<"InnerClasses">>],
      [tag |-> "Class", name_index |-> 3]>>

\* The raw records: a name index inside or outside the pool, and a payload.
AlRawInfos ==
    {[attribute_name_index |-> n, info |-> b] :
        n \in 0..(Len(AlPool) + 1), b \in {<<>>, <<0, 3>>, <<0, 4>>}}

AlInit ==
    /\ alBuild \in Builds
    /\ alRaws \in SeqsUpTo(AlRawInfos, MaxAttrs)
    /\ alPc = "decoded"
    /\ alOut = [st |-> "none"]
    /\ OnlyAl

\* class.attributes().collect().
AlAttributes ==
    /\ alPc = "decoded"
    /\ alOut' = Attributes(alBuild, AlPool, alRaws)
    /\ alPc' = "listed"
    /\ UNCHANGED <<alBuild, alRaws, notAl>>

AlNext == AlAttributes

SpecAl == AlInit /\ [][AlNext]_vars

\* C21: the listing attributes() returns has one attribute per raw record,
\* in the order of the records, each under the name its record's index
\* resolves to; no record is left out of a listing.
C21_AttributesListing ==
    (alPc = "listed" /\ alOut.st = "ok") =>
        /\ Len(alOut.list) = Len(alRaws)
        /\ \A i \in DOMAIN alRaws :
              /\ GetString(alBuild, AlPool,
                           alRaws[i].attribute_name_index).val.some
              /\ alOut.list[i].attribute_name =
                    TextOf(GetString(alBuild, AlPool,
                                     alRaws[i].attribute_name_index).val.val)

=============================================================================
